---- MODULE Spec2Model ----
(***************************************************************************)
(* Plan/fact analytics engine of src/app.py: reconciliation of plan and    *)
(* fact tables, safe division, ABC classification and the forecast model   *)
(* suite with its ensemble, scenarios, the smart plan, the plan            *)
(* recommendations and the validation of the loaded tables.                *)
(*                                                                         *)
(* Numbers.  The program computes in IEEE doubles.  The model computes in  *)
(* exact rationals <<n, d>> (d > 0, lowest terms) and keeps the three      *)
(* non-finite doubles as tagged values where the code can produce them     *)
(* (the divisions inside safe_divide).  A table is a record of its column  *)
(* names and its rows; an optional value is a sequence: None is <<>> and   *)
(* a present value x is <<x>>.                                             *)
(***************************************************************************)
EXTENDS Integers, Sequences, FiniteSets, TLC

VARIABLES
    op,               \* name of the operation that produced the current state
    numerator,        \* safe_divide: first argument
    denominator,      \* safe_divide: second argument
    default,          \* safe_divide: third argument
    quotient,         \* safe_divide: returned value
    df_fact,          \* fact table handed to prepare_data
    df_plan,          \* plan table handed to prepare_data
    df_merged,        \* reconciled table (prepare_data's first result)
    df_fact_detailed, \* month-normalized fact table (prepare_data's second result)
    date_errors,      \* number of entries parse_dates_flexible put in `errors`
    abc_analysis,     \* table returned by perform_abc_analysis
    monthly_sales,    \* monthly series given to the forecast functions
    periods,          \* forecast horizon
    window,           \* window argument of forecast_weighted_moving_average
    forecast,         \* (model_result, accuracy) pair returned by a forecast function
    forecast_df,      \* table returned by forecast_with_multiple_models
    scenario,         \* scenario argument of apply_scenario
    df_scenario,      \* table returned by apply_scenario
    avg_growth_rate,  \* first value returned by calculate_growth_rate
    adjustment_factor,\* adjustment_factor argument of create_smart_plan
    smart_plan,       \* table returned by create_smart_plan
    financial_metrics,\* metrics given to generate_plan_recommendations
    recommendations,  \* table returned by generate_plan_recommendations
    is_valid,         \* value returned by validate_columns
    loaded,           \* (df_fact, df_plan) pair returned by a loader
    raw_fact,         \* fact table as read from the file or the sheet
    raw_plan,         \* plan table as read from the file or the sheet
    inconsistent_rows \* count the consistency warning of validate_columns shows

\* the variables of planning and loading
loading == <<is_valid, loaded, raw_fact, raw_plan, inconsistent_rows>>

later == <<scenario, df_scenario, avg_growth_rate, adjustment_factor, smart_plan,
           financial_metrics, recommendations, loading>>

vars == <<op, numerator, denominator, default, quotient, df_fact, df_plan,
          df_merged, df_fact_detailed, date_errors, abc_analysis,
          monthly_sales, periods, window, forecast, forecast_df, later>>

None == <<>>
Some(x) == <<x>>

\* the sequence f itself, with every element evaluated once
Values(f) == f \o <<>>

-----------------------------------------------------------------------------
(* Exact rational arithmetic.                                              *)

Abs(x) == IF x < 0 THEN -x ELSE x

RECURSIVE GCD(_, _)
GCD(a, b) == IF b = 0 THEN a ELSE GCD(b, a % b)

\* n/d divided through by g, the sign carried by the numerator
Reduce(n, d, g) ==
    IF d < 0 THEN <<(-n) \div g, (-d) \div g>> ELSE <<n \div g, d \div g>>

\* the number n/d in lowest terms
Rat(n, d) == Reduce(n, d, GCD(Abs(n), Abs(d)))

RInt(k) == <<k, 1>>

RZero == RInt(0)

LCM(a, b) == (a \div GCD(a, b)) * b

\* x + y over the common denominator l
AddOver(x, y, l) == Rat(x[1] * (l \div x[2]) + y[1] * (l \div y[2]), l)

RAdd(x, y) ==
    IF x[2] = 1 /\ y[2] = 1 THEN <<x[1] + y[1], 1>>
    ELSE AddOver(x, y, LCM(x[2], y[2]))

RNeg(x) == <<-x[1], x[2]>>

RSub(x, y) == RAdd(x, RNeg(y))

\* x * y with g1 and g2 cancelled across the two fractions
MulCancel(x, y, g1, g2) ==
    <<(x[1] \div g1) * (y[1] \div g2), (x[2] \div g2) * (y[2] \div g1)>>

RMul(x, y) ==
    IF x[2] = 1 /\ y[2] = 1 THEN <<x[1] * y[1], 1>>
    ELSE MulCancel(x, y, GCD(Abs(x[1]), y[2]), GCD(Abs(y[1]), x[2]))

RDiv(x, y) == RMul(x, Rat(y[2], y[1]))

\* x < y, compared over the denominators divided by g
LtOver(x, y, g) == x[1] * (y[2] \div g) < y[1] * (x[2] \div g)

RLt(x, y) == LtOver(x, y, GCD(x[2], y[2]))

RLe(x, y) == ~RLt(y, x)

RAbs(x) == <<Abs(x[1]), x[2]>>

RMax(x, y) == IF RLt(x, y) THEN y ELSE x

RECURSIVE RSum(_)
RSum(s) == IF s = <<>> THEN RZero ELSE RAdd(s[1], RSum(Tail(s)))

RECURSIVE ISum(_)
ISum(s) == IF s = <<>> THEN 0 ELSE s[1] + ISum(Tail(s))

\* int(x): truncation toward zero
Trunc(x) == IF x[1] >= 0 THEN x[1] \div x[2] ELSE -((-x[1]) \div x[2])

-----------------------------------------------------------------------------
(* Doubles where the code can leave the finite ones: x / 0.                *)

Fin(r) == [kind |-> "fin", num |-> r]
NaN == [kind |-> "nan", num |-> RZero]
PosInf == [kind |-> "inf", num |-> RZero]
NegInf == [kind |-> "-inf", num |-> RZero]

\* IEEE division of two finite numbers (pandas/numpy `/`: no exception on 0)
FDiv(n, d) ==
    IF d[1] # 0 THEN Fin(RDiv(n, d))
    ELSE IF n[1] = 0 THEN NaN
    ELSE IF n[1] > 0 THEN PosInf
    ELSE NegInf

\* Series.div: element-wise over two columns of equal length
SeriesDiv(num, den) == [i \in DOMAIN num |-> FDiv(num[i], den[i])]

\* Series.replace([np.inf, -np.inf], default)
ReplaceInf(s, dflt) ==
    [i \in DOMAIN s |-> IF s[i].kind \in {"inf", "-inf"} THEN Fin(dflt) ELSE s[i]]

FillNaIdentity(s, dflt) == s

\* Series.fillna(default)
FillNa(s, dflt) ==
    [i \in DOMAIN s |-> IF s[i].kind = "nan" THEN Fin(dflt) ELSE s[i]]

\* Arguments of safe_divide carry their Python type:
\*   "Series"  a pandas column, val a sequence of numbers
\*   "float"   a Python int/float (np.float64 is a float subclass), val a number
\*   "int64"   a numpy integer scalar (the sum of an integer column), val a number
Series(s) == [typ |-> "Series", val |-> s]
Scalar(x) == [typ |-> "float", val |-> x]
NpInt(x) == [typ |-> "int64", val |-> x]

\* cell i of an argument: of the column, or the scalar broadcast to it
ArgAt(a, i) == IF a.typ = "Series" THEN a.val[i] ELSE a.val

NpDivide(num, den, dflt) ==
    IF num.typ = "Series" \/ den.typ = "Series"
    THEN Series([i \in DOMAIN (IF num.typ = "Series" THEN num.val ELSE den.val) |->
                    FDiv(ArgAt(num, i), ArgAt(den, i))])
    ELSE Scalar(FDiv(num.val, den.val))

\* np.where(denominator != 0, numerator / denominator, default), broadcasting
\* a scalar against a column
WhereCell(num, den, dflt, i) ==
    IF ArgAt(den, i)[1] # 0 THEN FDiv(ArgAt(num, i), ArgAt(den, i)) ELSE Fin(dflt)

NpWhereDiv(num, den, dflt) ==
    IF num.typ = "Series" \/ den.typ = "Series"
    THEN Series([i \in DOMAIN (IF num.typ = "Series" THEN num.val ELSE den.val) |->
                    WhereCell(num, den, dflt, i)])
    ELSE Scalar(WhereCell(num, den, dflt, 1))

safe_divide(num, den, dflt) ==
    IF num.typ = "Series" /\ den.typ = "Series"
    THEN Series(FillNa(ReplaceInf(SeriesDiv(num.val, den.val), dflt), dflt))
    ELSE IF num.typ = "float" /\ den.typ = "float"
    THEN Scalar(IF den.val[1] # 0 THEN Fin(RDiv(num.val, den.val)) ELSE Fin(dflt))
    ELSE NpWhereDiv(num, den, dflt)

-----------------------------------------------------------------------------
(* Rounding to two decimals: round(x, 2) and Series.round(2).  A tie (a    *)
(* value exactly half-way between two hundredths) goes to the even         *)
(* hundredth.                                                              *)

Signed(negative, k) == IF negative THEN -k ELSE k

\* the whole number nearest to q + r/d, r < d
NearestEven(q, r, d) ==
    IF 2 * r > d THEN q + 1
    ELSE IF 2 * r = d THEN q + (q % 2)
    ELSE q

\* the whole part of 100 * (w + h/(100 d))
HundredthsFloor(w, h, d) == 100 * w + h \div d

Round2Truncating(x) ==
    Rat(Signed(x[1] < 0,
               HundredthsFloor(Abs(x[1]) \div x[2], 100 * (Abs(x[1]) % x[2]), x[2])), 100)

Round2(x) ==
    Rat(Signed(x[1] < 0,
               NearestEven(HundredthsFloor(Abs(x[1]) \div x[2], 100 * (Abs(x[1]) % x[2]), x[2]),
                           (100 * (Abs(x[1]) % x[2])) % x[2], x[2])), 100)

-----------------------------------------------------------------------------
(* Calendar: days are counted from 1970-01-01 (proleptic Gregorian).       *)

IsLeap(y) == (y % 4 = 0 /\ y % 100 # 0) \/ y % 400 = 0

DaysInMonth(y, m) ==
    IF m = 2 THEN (IF IsLeap(y) THEN 29 ELSE 28)
    ELSE IF m \in {4, 6, 9, 11} THEN 30
    ELSE 31

ValidDate(y, m, d) == m \in 1..12 /\ d >= 1 /\ d <= DaysInMonth(y, m)

\* the day number of day doy (from 1 March) of year yoe of a 400-year era
DaysOfEra(era, yoe, doy) ==
    era * 146097 + yoe * 365 + yoe \div 4 - yoe \div 100 + doy - 719468

\* the same with the year yy counted from March
DaysOfYear(yy, doy) == DaysOfEra(yy \div 400, yy % 400, doy)

DaysFromCivil(y, m, d) ==
    DaysOfYear(IF m <= 2 THEN y - 1 ELSE y,
               (153 * (IF m > 2 THEN m - 3 ELSE m + 9) + 2) \div 5 + d - 1)

\* <<year, month, day>> of day d of month m, the year yy counted from March
CivilDate(yy, m, d) == <<yy + (IF m <= 2 THEN 1 ELSE 0), m, d>>

CivilOfMonth(yy, doy, mp) ==
    CivilDate(yy, IF mp < 10 THEN mp + 3 ELSE mp - 9, doy - (153 * mp + 2) \div 5 + 1)

CivilOfDay(yy, doy) == CivilOfMonth(yy, doy, (5 * doy + 2) \div 153)

CivilOfYear(era, doe, yoe) ==
    CivilOfDay(yoe + era * 400, doe - (365 * yoe + yoe \div 4 - yoe \div 100))

CivilOfEra(era, doe) ==
    CivilOfYear(era, doe,
                (doe - doe \div 1460 + doe \div 36524 - doe \div 146096) \div 365)

CivilFromDays(z) == CivilOfEra((z + 719468) \div 146097, (z + 719468) % 146097)

Pad2(k) == IF k < 10 THEN "0" \o ToString(k) ELSE ToString(k)

\* str(Period('M')): 'YYYY-MM'
MonthStr(y, m) == ToString(y) \o "-" \o Pad2(m)

DateStr(t) == ToString(t[1]) \o "-" \o Pad2(t[2]) \o "-" \o Pad2(t[3])

\* str(Period('W')): 'monday/sunday' of the week (W-SUN) holding the day
\* of the date, from the week's monday
WeekFrom(monday) ==
    DateStr(CivilFromDays(monday)) \o "/" \o DateStr(CivilFromDays(monday + 6))

\* the week of day number z: day 0 is a Thursday
WeekOf(z) == WeekFrom(z - ((z + 3) % 7))

WeekStr(y, m, d) == WeekOf(DaysFromCivil(y, m, d))

-----------------------------------------------------------------------------
(* Cells of the Datasales column.  cls is the Python class of the cell:    *)
(*   "NaN"        a missing value (pd.isna)                                *)
(*   "Timestamp"  a datetime, f1-f2-f3 = year, month, day                  *)
(*   "int"        a number, f1 its value (an Excel serial date)            *)
(*   "str"        text: three numeric fields f1, f2, f3 joined by sep      *)
(*                ("-", ".", "/" or "" for none), or, with sep = "text",   *)
(*                words that hold no date                                  *)
(*   "NaT"        the missing Timestamp parse_dates_flexible writes        *)

DateCell(c, s, a, b, d) == [cls |-> c, sep |-> s, f1 |-> a, f2 |-> b, f3 |-> d]

NaNCell == DateCell("NaN", "", 0, 0, 0)
NaT == DateCell("NaT", "", 0, 0, 0)
Timestamp(y, m, d) == DateCell("Timestamp", "", y, m, d)
IntCell(n) == DateCell("int", "", n, 0, 0)
StrCell(s, a, b, d) == DateCell("str", s, a, b, d)
TextCell == DateCell("str", "text", 0, 0, 0)

\* the formats of date_formats in the order strptime tries them; in ord
\* "Y" is %Y (four digits), "y" is %y (two digits, 2000 + yy below 69)
date_formats == <<
    [fsep |-> "-", ord |-> "Ymd"],
    [fsep |-> ".", ord |-> "dmY"],
    [fsep |-> "/", ord |-> "dmY"],
    [fsep |-> "/", ord |-> "mdY"],
    [fsep |-> "/", ord |-> "Ymd"],
    [fsep |-> "-", ord |-> "dmY"],
    [fsep |-> "", ord |-> "Ymd"],
    [fsep |-> ".", ord |-> "dmy"],
    [fsep |-> "/", ord |-> "dmy"] >>

Year4(v) == v >= 1000 /\ v <= 9999
Year2(v) == v >= 0 /\ v <= 99
Century(v) == IF v < 69 THEN 2000 + v ELSE 1900 + v

\* datetime.strptime(date_str, fmt): <<year, month, day>> in a one-element
\* sequence, or <<>> for ValueError
\* the date ymd when the text has the format's shape and ymd is a calendar day
DateIf(shaped, ymd) ==
    IF shaped /\ ValidDate(ymd[1], ymd[2], ymd[3]) THEN <<ymd>> ELSE <<>>

Strptime(c, fmt) ==
    DateIf(c.sep = fmt.fsep /\ (IF fmt.ord = "dmy" THEN Year2(c.f3)
                                ELSE IF fmt.ord = "Ymd" THEN Year4(c.f1)
                                ELSE Year4(c.f3)),
           IF fmt.ord = "Ymd" THEN <<c.f1, c.f2, c.f3>>
           ELSE IF fmt.ord = "dmY" THEN <<c.f3, c.f2, c.f1>>
           ELSE IF fmt.ord = "mdY" THEN <<c.f3, c.f1, c.f2>>
           ELSE <<Century(c.f3), c.f2, c.f1>>)

RECURSIVE TryFormats(_, _)

\* `break` on the first format that parses, else the next format
FirstParsed(parsed, c, i) == IF parsed # <<>> THEN parsed ELSE TryFormats(c, i + 1)

TryFormats(c, i) ==
    IF i > Len(date_formats) THEN <<>>
    ELSE FirstParsed(Strptime(c, date_formats[i]), c, i)

\* dateutil's parser.parse(date_str, dayfirst=True) on the strings no format
\* took: year first when the first field has four digits, else day first
DateutilParse(c) ==
    DateIf(c.sep \in {"-", ".", "/"},
           IF Year4(c.f1) THEN <<c.f1, c.f2, c.f3>>
           ELSE <<(IF Year2(c.f3) THEN Century(c.f3) ELSE c.f3), c.f2, c.f1>>)

\* pd.Timestamp('1899-12-30') + pd.Timedelta(days=n); Timestamp spans
\* 1677-09-22 .. 2262-04-11, outside it the sum raises
ExcelEpoch == DaysFromCivil(1899, 12, 30)
SerialInRange(n) ==
    /\ n + ExcelEpoch >= DaysFromCivil(1677, 9, 22)
    /\ n + ExcelEpoch <= DaysFromCivil(2262, 4, 11)

\* str(n) of a number that is no serial date, as the cell strptime reads
NumberText(n) ==
    IF n >= 10000000 /\ n <= 99999999
    THEN StrCell("", n \div 10000, (n \div 100) % 100, n % 100)
    ELSE TextCell

\* one pass of the loop of parse_dates_flexible: the Timestamp appended to
\* parsed_dates and the number of entries appended to errors
Stamp(t) == Timestamp(t[1], t[2], t[3])

\* the end of a pass over a text: the date parsed, or NaT and an error
Parsed(parsed) == IF parsed # <<>> THEN <<Stamp(parsed[1]), 0>> ELSE <<NaT, 1>>

\* dateutil takes the text when no format did
OrDateutil(byFormat, text) == IF byFormat # <<>> THEN byFormat ELSE DateutilParse(text)

ParseText(text) == Parsed(OrDateutil(TryFormats(text, 1), text))

ParseCell(c) ==
    IF c.cls \in {"NaN", "NaT"} THEN <<NaT, 0>>
    ELSE IF c.cls = "Timestamp" THEN <<c, 0>>
    ELSE IF c.cls = "int" /\ SerialInRange(c.f1)
    THEN <<Stamp(CivilFromDays(c.f1 + ExcelEpoch)), 0>>
    ELSE ParseText(IF c.cls = "int" THEN NumberText(c.f1) ELSE c)

\* the Series returned and the errors collected over the passes
Collected(passes) ==
    [parsed_dates |-> [i \in DOMAIN passes |-> passes[i][1]],
     errors |-> ISum([i \in DOMAIN passes |-> passes[i][2]])]

parse_dates_flexible(date_series) ==
    Collected(Values([i \in DOMAIN date_series |-> ParseCell(date_series[i])]))

-----------------------------------------------------------------------------
(* Tables.                                                                 *)

REQUIRED_FACT_COLUMNS == <<"Magazin", "Datasales", "Segment", "Price", "Qty", "Sum">>

\* a row of the fact table; Month and Week are "" until prepare_data adds
\* the columns
FactRow(mag, date, seg, price, qty, sum) ==
    [Magazin |-> mag, Datasales |-> date, Segment |-> seg, Price |-> price,
     Qty |-> qty, Sum |-> sum, Month |-> "", Week |-> ""]

REQUIRED_PLAN_COLUMNS == <<"Magazin", "Segment", "Month", "Revenue_Plan", "Units_Plan">>

PlanRow(mag, seg, month, revenue, units) ==
    [Magazin |-> mag, Segment |-> seg, Month |-> month,
     Revenue_Plan |-> revenue, Units_Plan |-> units]

DataFrame(cols, rws) == [columns |-> cols, rows |-> rws]

\* df is None or df.empty
Empty(df) == df = None \/ Len(df[1].rows) = 0 \/ Len(df[1].columns) = 0

\* df[name] = ... : a new column goes last, an existing one keeps its place
WithColumn(cols, name) ==
    IF \E i \in DOMAIN cols : cols[i] = name THEN cols ELSE Append(cols, name)

RECURSIVE SumRowsAnyMonth(_, _, _)
SumRowsAnyMonth(rws, key, what) ==
    IF rws = <<>> THEN 0
    ELSE (IF <<rws[1].Magazin, rws[1].Segment>> = <<key[1], key[2]>>
          THEN (IF what = "Sum" THEN rws[1].Sum ELSE rws[1].Qty)
          ELSE 0) + SumRowsAnyMonth(Tail(rws), key, what)

RECURSIVE SumRows(_, _, _)
\* the sum of column Sum (what = "Sum") or Qty over the rows with the key
SumRows(rws, key, what) ==
    IF rws = <<>> THEN 0
    ELSE (IF <<rws[1].Magazin, rws[1].Segment, rws[1].Month>> = key
          THEN (IF what = "Sum" THEN rws[1].Sum ELSE rws[1].Qty)
          ELSE 0) + SumRows(Tail(rws), key, what)

\* the groups of df_fact.groupby(['Magazin', 'Segment', 'Month'])
GroupKeys(rws) ==
    {<<rws[i].Magazin, rws[i].Segment, rws[i].Month>> : i \in DOMAIN rws}

MergeInner(plan, keys) ==
    SelectSeq(plan, LAMBDA p : <<p.Magazin, p.Segment, p.Month>> \in keys)

\* the left rows pd.merge(df_plan, fact_agg, how='left') keeps: all of them,
\* in their order
MergeLeft(plan, keys) == plan

\* (column * 100).round(2)
Times100Round2(q) == [i \in DOMAIN q |-> Round2(RMul(q[i].num, RInt(100)))]

\* (safe_divide(diff, plan) * 100).round(2)
Pct(diff, plan) == Times100Round2(safe_divide(Series(diff), Series(plan), RZero).val)

MERGED_COLUMNS ==
    REQUIRED_PLAN_COLUMNS \o <<"Revenue_Fact", "Units_Fact", "Revenue_Diff",
                               "Revenue_Diff_Pct", "Units_Diff", "Units_Diff_Pct">>

\* df_fact['Datasales'] = parse_dates_flexible(...): the assignment writes
\* into the table the caller passed
AssignDates(rws, parsed_dates) ==
    Values([i \in DOMAIN rws |-> [rws[i] EXCEPT !.Datasales = parsed_dates[i]]])

\* df_fact['Datasales'].isna().sum()
invalid_dates(rws) == Cardinality({i \in DOMAIN rws : rws[i].Datasales.cls = "NaT"})

\* df_fact.dropna(subset=['Datasales']): a new table without the NaT rows
DropNaT(rws) == SelectSeq(rws, LAMBDA r : r.Datasales.cls # "NaT")

\* the columns Month = to_period('M') and Week = to_period('W') as text
AddPeriods(rws) ==
    Values([i \in DOMAIN rws |->
       [rws[i] EXCEPT !.Month = MonthStr(rws[i].Datasales.f1, rws[i].Datasales.f2),
                      !.Week = WeekStr(rws[i].Datasales.f1, rws[i].Datasales.f2,
                                       rws[i].Datasales.f3)]])

\* column what of fact_agg joined to the plan row p: NaN where fact_agg has
\* no row for the key, then fillna(0)
FactOf(p, rws, keys, what) ==
    IF <<p.Magazin, p.Segment, p.Month>> \in keys
    THEN SumRows(rws, <<p.Magazin, p.Segment, p.Month>>, what)
    ELSE 0

\* the columns Revenue_Diff .. Units_Diff_Pct next to those of the join
Differences(joined, revFact, uniFact, revPct, uniPct) ==
    [i \in DOMAIN joined |->
        [Magazin |-> joined[i].Magazin, Segment |-> joined[i].Segment,
         Month |-> joined[i].Month,
         Revenue_Plan |-> joined[i].Revenue_Plan,
         Units_Plan |-> joined[i].Units_Plan,
         Revenue_Fact |-> revFact[i], Units_Fact |-> uniFact[i],
         Revenue_Diff |-> revFact[i] - joined[i].Revenue_Plan,
         Revenue_Diff_Pct |-> revPct[i],
         Units_Diff |-> uniFact[i] - joined[i].Units_Plan,
         Units_Diff_Pct |-> uniPct[i]]]

\* df_merged once the two fact columns are filled
Filled(joined, revFact, uniFact) ==
    Differences(joined, revFact, uniFact,
        Pct([i \in DOMAIN joined |-> RInt(revFact[i] - joined[i].Revenue_Plan)],
            [i \in DOMAIN joined |-> RInt(joined[i].Revenue_Plan)]),
        Pct([i \in DOMAIN joined |-> RInt(uniFact[i] - joined[i].Units_Plan)],
            [i \in DOMAIN joined |-> RInt(joined[i].Units_Plan)]))

\* pd.merge(df_plan, fact_agg, how='left') and the fillna(0) of its fact columns
Merged(joined, rws, keys) ==
    Filled(joined,
           Values([i \in DOMAIN joined |-> FactOf(joined[i], rws, keys, "Sum")]),
           Values([i \in DOMAIN joined |-> FactOf(joined[i], rws, keys, "Qty")]))

\* prepare_data from the groupby on: detailed is df_fact with Month and Week.
\* Without a row dropped, df_fact still names the caller's table when the
\* two columns are added (the dropna is under `if invalid_dates > 0`)
Aggregated(given, plan, assigned, detailed, errors) ==
    [ret_merged |-> Some(DataFrame(MERGED_COLUMNS,
                        Merged(MergeLeft(plan.rows, GroupKeys(detailed)), detailed,
                               GroupKeys(detailed)))),
     ret_fact |-> Some(DataFrame(WithColumn(WithColumn(given.columns, "Month"), "Week"),
                                 detailed)),
     caller_fact |-> IF invalid_dates(assigned) > 0
                     THEN Some(DataFrame(given.columns, assigned))
                     ELSE Some(DataFrame(WithColumn(WithColumn(given.columns, "Month"), "Week"),
                                         detailed)),
     n_errors |-> errors]

\* prepare_data from the assignment of the parsed dates on
Assigned(given, plan, assigned, errors) ==
    Aggregated(given, plan, assigned, AddPeriods(DropNaT(assigned)), errors)

Prepared(given, plan, parsed) ==
    Assigned(given, plan, AssignDates(given.rows, parsed.parsed_dates), parsed.errors)

\* prepare_data(df_fact, df_plan): ret_merged and ret_fact are the two values
\* returned, caller_fact is the table the caller passed as df_fact as the
\* call leaves it, n_errors is len(date_errors)
prepare_data(factArg, planArg) ==
    IF Empty(factArg) \/ Empty(planArg)
    THEN [ret_merged |-> None, ret_fact |-> None, caller_fact |-> factArg,
          n_errors |-> 0]
    ELSE Prepared(factArg[1], planArg[1],
             parse_dates_flexible([i \in DOMAIN factArg[1].rows |->
                                      factArg[1].rows[i].Datasales]))

-----------------------------------------------------------------------------
(* Initial values of the variables an operation does not use.              *)

IdleDiv ==
    /\ numerator = Scalar(RZero) /\ denominator = Scalar(RZero)
    /\ default = RZero /\ quotient = None

IdleTables == df_fact = None /\ df_plan = None

IdleScenario == scenario = "" /\ df_scenario = None

IdleGrowth == avg_growth_rate = None

IdleSmartPlan == adjustment_factor = None /\ smart_plan = None

IdleRecommendations == financial_metrics = None /\ recommendations = None

IdleLoad ==
    /\ is_valid = None /\ loaded = None /\ raw_fact = None /\ raw_plan = None
    /\ inconsistent_rows = None

IdleLater == IdleScenario /\ IdleGrowth /\ IdleSmartPlan /\ IdleRecommendations /\ IdleLoad

IdleRecon == df_merged = None /\ df_fact_detailed = None /\ date_errors = 0

IdleAbc == abc_analysis = None

IdleForecast ==
    /\ monthly_sales = <<>> /\ periods = 0 /\ window = 0
    /\ forecast = None /\ forecast_df = None

-----------------------------------------------------------------------------
(* The safe_divide calls.                                                  *)

MaxColumn == 2

DivValues == {RInt(-3), RInt(0), RInt(2), Rat(1, 2)}
DivDefaults == {RInt(0), RInt(7)}

Columns == UNION {[1..n -> DivValues] : n \in 1..MaxColumn}

InitDiv ==
    op = "init" /\ IdleDiv /\ IdleTables /\ IdleRecon /\ IdleAbc /\ IdleForecast /\ IdleLater

Call_safe_divide(num, den, dflt) ==
    /\ op' = "safe_divide"
    /\ numerator' = num
    /\ denominator' = den
    /\ default' = dflt
    /\ quotient' = Some(safe_divide(num, den, dflt))
    /\ UNCHANGED <<later, df_fact, df_plan, df_merged, df_fact_detailed, date_errors,
                   abc_analysis, monthly_sales, periods, window, forecast,
                   forecast_df>>

\* scalar by scalar: safe_divide(metrics[...], metrics[...], 0)
DivideScalars ==
    /\ op = "init"
    /\ \E n \in DivValues, d \in DivValues, dflt \in DivDefaults :
          Call_safe_divide(Scalar(n), Scalar(d), dflt)

\* column by column: safe_divide(df['Revenue_Diff'], df['Revenue_Plan'])
DivideColumns ==
    /\ op = "init"
    /\ \E n \in Columns, d \in Columns, dflt \in DivDefaults :
          /\ Len(n) = Len(d)
          /\ Call_safe_divide(Series(n), Series(d), dflt)

\* column by scalar: safe_divide(store_revenue['Revenue_Cumsum'], total_revenue, 0)
DivideColumnByScalar ==
    /\ op = "init"
    /\ \E n \in Columns, d \in DivValues, dflt \in DivDefaults :
          Call_safe_divide(Series(n), Scalar(d), dflt)

\* scalar by numpy integer: safe_divide(total_revenue_plan, total_units_plan, 0)
DivideByNpInt ==
    /\ op = "init"
    /\ \E n \in DivValues, d \in {RInt(0), RInt(2)}, dflt \in DivDefaults :
          Call_safe_divide(Scalar(n), NpInt(d), dflt)

NextDiv == DivideScalars \/ DivideColumns \/ DivideColumnByScalar \/ DivideByNpInt

SpecDiv == InitDiv /\ [][NextDiv]_vars

-----------------------------------------------------------------------------
(* C4: safe_divide returns default where the denominator is 0 and n/d      *)
(* elsewhere, element by element in every calling form, and the value is   *)
(* never NaN or an infinity.                                               *)

DivCells ==
    IF numerator.typ = "Series" THEN DOMAIN numerator.val
    ELSE IF denominator.typ = "Series" THEN DOMAIN denominator.val
    ELSE {1}

OutAt(i) == IF quotient[1].typ = "Series" THEN quotient[1].val[i] ELSE quotient[1].val

-----------------------------------------------------------------------------
(* Reconciliation: the tables main() hands to prepare_data.                *)

MaxFactRows == 2

\* outlet and segment of a fact row
FactPairs == {<<"A", "S">>, <<"A", "T">>}

\* Datasales, Price, Qty, Sum of a fact row
FactSales == {
    <<StrCell("-", 2025, 1, 15), 100, 1, 100>>,
    <<StrCell(".", 20, 1, 2025), 125, 2, 250>>,
    <<IntCell(45703), 40, 1, 40>>,
    <<TextCell, 100, 1, 100>>,
    <<NaNCell, 125, 2, 250>> }

FactRows == {FactRow(k[1], v[1], k[2], v[2], v[3], v[4]) : k \in FactPairs, v \in FactSales}

PlanRows == {
    PlanRow("A", "S", "2025-01", 300, 3),
    PlanRow("A", "T", "2025-01", 0, 0),
    PlanRow("B", "S", "2025-01", 1000, 10) }

SeqsUpTo(S, n) == UNION {[1..k -> S] : k \in 0..n}

FactTables ==
    {None} \cup {Some(DataFrame(REQUIRED_FACT_COLUMNS, r)) : r \in SeqsUpTo(FactRows, MaxFactRows)}

\* the plan tables: one row per key (outlet, segment, month), in any order
UniqueRows(r) == \A i, j \in DOMAIN r : i # j => r[i] # r[j]

PlanTables ==
    {None} \cup {Some(DataFrame(REQUIRED_PLAN_COLUMNS, r)) :
                    r \in {q \in SeqsUpTo(PlanRows, Cardinality(PlanRows)) : UniqueRows(q)}}

InitRecon ==
    /\ op = "init"
    /\ df_fact \in FactTables
    /\ df_plan \in PlanTables
    /\ IdleDiv /\ IdleRecon /\ IdleAbc /\ IdleForecast /\ IdleLater

\* df_merged, df_fact_detailed = prepare_data(df_fact, df_plan)
PrepareData ==
    /\ op = "init"
    /\ op' = "prepare_data"
    /\ \E r \in {prepare_data(df_fact, df_plan)} :
           /\ df_merged' = r.ret_merged
           /\ df_fact_detailed' = r.ret_fact
           /\ df_fact' = r.caller_fact
           /\ date_errors' = r.n_errors
    /\ UNCHANGED <<later, df_plan, numerator, denominator, default, quotient,
                   abc_analysis, monthly_sales, periods, window, forecast,
                   forecast_df>>

NextRecon == PrepareData

SpecRecon == InitRecon /\ [][NextRecon]_vars

-----------------------------------------------------------------------------
(* What the claims about prepare_data read off a state.                    *)

Reconciled == op = "prepare_data" /\ df_merged # None

\* the fact rows whose date could be parsed: after the call the caller's
\* table holds a Timestamp in them and NaT in the others
Parseable(f) == f.Datasales.cls = "Timestamp"

SameKey(f, r) ==
    /\ Parseable(f)
    /\ f.Magazin = r.Magazin
    /\ f.Segment = r.Segment
    /\ MonthStr(f.Datasales.f1, f.Datasales.f2) = r.Month

RECURSIVE SumMatching(_, _, _)
SumMatching(facts, r, what) ==
    IF facts = <<>> THEN 0
    ELSE (IF SameKey(facts[1], r)
          THEN (IF what = "Sum" THEN facts[1].Sum ELSE facts[1].Qty)
          ELSE 0) + SumMatching(Tail(facts), r, what)

Matches(r) == {i \in DOMAIN df_fact[1].rows : SameKey(df_fact[1].rows[i], r)}

(* C1: every reconciled row's Revenue_Fact is the sum of Sum, and its      *)
(* Units_Fact the sum of Qty, over the date-parseable fact rows with the   *)
(* row's outlet, segment and month; with no such row both are 0.           *)
C1_ActualsAreSums ==
    Reconciled =>
        \A i \in DOMAIN df_merged[1].rows :
            LET r == df_merged[1].rows[i]
            IN  /\ r.Revenue_Fact = SumMatching(df_fact[1].rows, r, "Sum")
                /\ r.Units_Fact = SumMatching(df_fact[1].rows, r, "Qty")
                /\ Matches(r) = {} => r.Revenue_Fact = 0 /\ r.Units_Fact = 0

\* two fact rows written in different date formats fall in the same key and
\* are summed, another plan row has no fact row and gets 0
C1_Witness ==
    /\ Reconciled
    /\ \E i, j \in DOMAIN df_merged[1].rows :
          /\ Cardinality(Matches(df_merged[1].rows[i])) = 2
          /\ df_merged[1].rows[i].Revenue_Fact = 350
          /\ df_merged[1].rows[i].Units_Fact = 3
          /\ Matches(df_merged[1].rows[j]) = {}
          /\ df_merged[1].rows[j].Revenue_Fact = 0
          /\ df_merged[1].rows[j].Units_Fact = 0

KeyOf(r) == <<r.Magazin, r.Segment, r.Month>>

FactPart(f) == <<f.Magazin, f.Segment, f.Datasales, f.Price, f.Qty, f.Sum>>

(* C2: the reconciled table has exactly one row per plan row, in the plan's*)
(* order and with the plan's key and targets, hence none for a key only    *)
(* the facts have; the fact table returned holds every date-parseable fact *)
(* row, matched or not, and no other.                                      *)
C2_LeftJoin ==
    Reconciled =>
        /\ Len(df_merged[1].rows) = Len(df_plan[1].rows)
        /\ \A i \in DOMAIN df_plan[1].rows :
              /\ KeyOf(df_merged[1].rows[i]) = KeyOf(df_plan[1].rows[i])
              /\ df_merged[1].rows[i].Revenue_Plan = df_plan[1].rows[i].Revenue_Plan
              /\ df_merged[1].rows[i].Units_Plan = df_plan[1].rows[i].Units_Plan
        /\ LET kept == SelectSeq(df_fact[1].rows, Parseable)
           IN  /\ Len(df_fact_detailed[1].rows) = Len(kept)
               /\ \A i \in DOMAIN kept :
                     /\ FactPart(df_fact_detailed[1].rows[i]) = FactPart(kept[i])
                     /\ df_fact_detailed[1].rows[i].Month
                          = MonthStr(kept[i].Datasales.f1, kept[i].Datasales.f2)

\* one plan row matched, one plan row without facts, and a parseable fact
\* row whose key is in no plan row: it is in the fact table returned only
C2_Witness ==
    /\ Reconciled
    /\ Len(df_plan[1].rows) = 2
    /\ KeyOf(df_plan[1].rows[1]) # KeyOf(df_plan[1].rows[2])
    /\ \E i, j \in DOMAIN df_merged[1].rows :
          Matches(df_merged[1].rows[i]) # {} /\ Matches(df_merged[1].rows[j]) = {}
    /\ \E n \in DOMAIN df_fact_detailed[1].rows :
          \A i \in DOMAIN df_merged[1].rows :
              KeyOf(df_fact_detailed[1].rows[n]) # KeyOf(df_merged[1].rows[i])

\* variance / planned * 100 as an exact number, 0 when planned is 0
ExactPct(diff, planned) ==
    IF planned = 0 THEN RZero ELSE RMul(Rat(diff, planned), RInt(100))

\* x is a whole number of hundredths, at most half a hundredth from y
RoundedTo2(x, y) == 100 % x[2] = 0 /\ RLe(RAbs(RSub(x, y)), Rat(1, 200))

C3_Differences(r) ==
    /\ r.Revenue_Diff = r.Revenue_Fact - r.Revenue_Plan
    /\ r.Units_Diff = r.Units_Fact - r.Units_Plan
    /\ (r.Revenue_Plan = 1000 /\ r.Revenue_Fact = 0) =>
           r.Revenue_Diff = -1000 /\ r.Revenue_Diff_Pct = RInt(-100)

(* C3 as the specification states it: the variance is actual minus planned *)
(* and the variance percent is exactly variance / planned * 100, or 0 when  *)
(* planned is 0, for revenue and for units.                                *)
C3_ExactPercent ==
    Reconciled =>
        \A i \in DOMAIN df_merged[1].rows :
            LET r == df_merged[1].rows[i]
            IN  /\ C3_Differences(r)
                /\ r.Revenue_Diff_Pct = ExactPct(r.Revenue_Diff, r.Revenue_Plan)
                /\ r.Units_Diff_Pct = ExactPct(r.Units_Diff, r.Units_Plan)

(* C3 amended: the variance percent is variance / planned * 100 rounded to *)
(* two decimals (0 when planned is 0).                                     *)
C3_RoundedPercent ==
    Reconciled =>
        \A i \in DOMAIN df_merged[1].rows :
            LET r == df_merged[1].rows[i]
            IN  /\ C3_Differences(r)
                /\ RoundedTo2(r.Revenue_Diff_Pct, ExactPct(r.Revenue_Diff, r.Revenue_Plan))
                /\ RoundedTo2(r.Units_Diff_Pct, ExactPct(r.Units_Diff, r.Units_Plan))

\* planned 300 and actual 100: variance -200, percent -66.67; next to it the
\* row planned 1000 without facts and a row with planned 0
C3_Witness ==
    /\ Reconciled
    /\ \E i \in DOMAIN df_merged[1].rows :
          /\ df_merged[1].rows[i].Revenue_Plan = 300
          /\ df_merged[1].rows[i].Revenue_Fact = 100
          /\ df_merged[1].rows[i].Revenue_Diff = -200
          /\ df_merged[1].rows[i].Revenue_Diff_Pct = Rat(-6667, 100)
    /\ \E i \in DOMAIN df_merged[1].rows :
          \/ /\ df_merged[1].rows[i].Revenue_Plan = 1000
             /\ df_merged[1].rows[i].Revenue_Fact = 0
             /\ df_merged[1].rows[i].Revenue_Diff_Pct = RInt(-100)
          \/ /\ df_merged[1].rows[i].Revenue_Plan = 0
             /\ df_merged[1].rows[i].Revenue_Fact > 0
             /\ df_merged[1].rows[i].Revenue_Diff_Pct = RZero

-----------------------------------------------------------------------------
(* ABC classification of the outlets.                                      *)

\* one row of the reconciled table with the columns prepare_data derives
MergedRow(mag, seg, month, revPlan, uniPlan, revFact, uniFact) ==
    [Magazin |-> mag, Segment |-> seg, Month |-> month,
     Revenue_Plan |-> revPlan, Units_Plan |-> uniPlan,
     Revenue_Fact |-> revFact, Units_Fact |-> uniFact,
     Revenue_Diff |-> revFact - revPlan,
     Revenue_Diff_Pct |-> Pct(<<RInt(revFact - revPlan)>>, <<RInt(revPlan)>>)[1],
     Units_Diff |-> uniFact - uniPlan,
     Units_Diff_Pct |-> Pct(<<RInt(uniFact - uniPlan)>>, <<RInt(uniPlan)>>)[1]]

\* the outlets of the model in the order groupby sorts its keys
OutletKeys == <<"A", "B", "C">>

\* the sums of the two revenue columns over the rows of each outlet present
GroupSums(rws, present) ==
    Values([i \in DOMAIN present |->
       [Magazin |-> present[i],
        Revenue_Plan |-> ISum([k \in DOMAIN rws |->
            IF rws[k].Magazin = present[i] THEN rws[k].Revenue_Plan ELSE 0]),
        Revenue_Fact |-> ISum([k \in DOMAIN rws |->
            IF rws[k].Magazin = present[i] THEN rws[k].Revenue_Fact ELSE 0])]])

\* df_merged.groupby('Magazin').agg({...: 'sum'}).reset_index(): one row per
\* outlet, in key order
GroupByMagazin(rws) ==
    GroupSums(rws, SelectSeq(OutletKeys, LAMBDA m : \E i \in DOMAIN rws : rws[i].Magazin = m))

\* sort_values('Revenue_Fact', ascending=False): the orders the sort may
\* leave the rows in; the default sort does not fix the order of equal keys
sort_values(groups) ==
    {p \in [DOMAIN groups -> DOMAIN groups] :
        /\ \A i, j \in DOMAIN groups : i # j => p[i] # p[j]
        /\ \A i, j \in DOMAIN groups :
              i < j => groups[p[i]].Revenue_Fact >= groups[p[j]].Revenue_Fact}

\* the fraction left as it is, not turned into a percentage
AsFraction(x) == IF x.kind = "fin" THEN Fin(x.num) ELSE x

\* column * 100 on the doubles safe_divide returns
Times100(x) == IF x.kind = "fin" THEN Fin(RMul(x.num, RInt(100))) ELSE x

assign_abc_category_strict(pct) ==
    IF pct.kind = "-inf" \/ (pct.kind = "fin" /\ RLt(pct.num, RInt(80))) THEN "A"
    ELSE IF pct.kind = "fin" /\ RLt(pct.num, RInt(95)) THEN "B"
    ELSE "C"

\* a comparison with NaN is False
assign_abc_category(pct) ==
    IF pct.kind = "-inf" \/ (pct.kind = "fin" /\ RLe(pct.num, RInt(80))) THEN "A"
    ELSE IF pct.kind = "fin" /\ RLe(pct.num, RInt(95)) THEN "B"
    ELSE "C"

ABC_COLUMNS == <<"Magazin", "Revenue_Fact", "Revenue_Plan", "Revenue_Cumsum",
                 "Revenue_Cumsum_Pct", "ABC_Category", "Performance">>

\* the table returned, from the sorted groups and the three derived columns
Categorized(store_revenue, cumsum, cumsumPct, performance) ==
    DataFrame(ABC_COLUMNS,
        [i \in DOMAIN store_revenue |->
            [Magazin |-> store_revenue[i].Magazin,
             Revenue_Plan |-> store_revenue[i].Revenue_Plan,
             Revenue_Fact |-> store_revenue[i].Revenue_Fact,
             Revenue_Cumsum |-> cumsum[i],
             Revenue_Cumsum_Pct |-> Times100(cumsumPct[i]),
             ABC_Category |-> assign_abc_category(Times100(cumsumPct[i])),
             Performance |-> Times100(performance[i])]])

\* Revenue_Cumsum_Pct and Performance from the cumulative sum and the total
Cumulated(store_revenue, cumsum, total_revenue) ==
    Categorized(store_revenue, cumsum,
        safe_divide(Series([i \in DOMAIN cumsum |-> RInt(cumsum[i])]),
                    Scalar(RInt(total_revenue)), RZero).val,
        safe_divide(Series([i \in DOMAIN store_revenue |-> RInt(store_revenue[i].Revenue_Fact)]),
                    Series([i \in DOMAIN store_revenue |-> RInt(store_revenue[i].Revenue_Plan)]),
                    RZero).val)

\* Revenue_Cumsum = cumsum() and total_revenue = sum() of column Revenue_Fact
Sorted(store_revenue, fact) ==
    Cumulated(store_revenue, [i \in DOMAIN fact |-> ISum(SubSeq(fact, 1, i))], ISum(fact))

\* the groups in the order sort_values left them in
Ordered(store_revenue) ==
    Sorted(store_revenue,
           Values([i \in DOMAIN store_revenue |-> store_revenue[i].Revenue_Fact]))

Reordered(groups, order) == Ordered(Values([i \in DOMAIN groups |-> groups[order[i]]]))

\* perform_abc_analysis(df_merged) with the rows in the order sort_values
\* left them in
perform_abc_analysis(mergedArg, order) ==
    Reordered(GroupByMagazin(mergedArg.rows), order)

MaxMergedRows == 3

\* the rows of the reconciled tables main() classifies: outlet, segment,
\* planned and actual revenue (10 per unit)
AbcRows == {
    MergedRow("A", "S", "2025-01", 9000, 900, 8000, 800),
    MergedRow("A", "T", "2025-01", 9000, 900, 8001, 800),
    MergedRow("A", "U", "2025-01", 0, 0, 0, 0),
    MergedRow("B", "S", "2025-01", 1000, 100, 1500, 150),
    MergedRow("B", "T", "2025-01", 1000, 100, 0, 0),
    MergedRow("C", "S", "2025-01", 0, 0, 500, 50),
    MergedRow("C", "T", "2025-01", 500, 50, 499, 50),
    MergedRow("C", "U", "2025-01", 500, 50, 0, 0) }

AbcTables ==
    {Some(DataFrame(MERGED_COLUMNS, r)) :
        r \in {q \in SeqsUpTo(AbcRows, MaxMergedRows) : UniqueRows(q)}}

InitAbc ==
    /\ op = "init"
    /\ df_merged \in AbcTables
    /\ df_fact_detailed = None /\ date_errors = 0
    /\ IdleDiv /\ IdleTables /\ IdleAbc /\ IdleForecast /\ IdleLater

\* abc_analysis = perform_abc_analysis(df_filtered)
PerformAbcAnalysis ==
    /\ op = "init"
    /\ op' = "perform_abc_analysis"
    /\ \E order \in sort_values(GroupByMagazin(df_merged[1].rows)) :
          abc_analysis' = Some(perform_abc_analysis(df_merged[1], order))
    /\ UNCHANGED <<later, numerator, denominator, default, quotient, df_fact, df_plan,
                   df_merged, df_fact_detailed, date_errors, monthly_sales,
                   periods, window, forecast, forecast_df>>

NextAbc == PerformAbcAnalysis

SpecAbc == InitAbc /\ [][NextAbc]_vars

-----------------------------------------------------------------------------
(* What the claims about perform_abc_analysis read off a state.            *)

Classified == op = "perform_abc_analysis"

\* the actual revenue of the first i rows of the classified table as a
\* percent of the actual revenue of all of them, 0 when that is 0
CumulativePct(i) ==
    LET col == [k \in DOMAIN abc_analysis[1].rows |-> abc_analysis[1].rows[k].Revenue_Fact]
    IN  IF ISum(col) = 0 THEN RZero
        ELSE Rat(100 * ISum(SubSeq(col, 1, i)), ISum(col))

(* C5: the category of every outlet follows from its cumulative revenue    *)
(* percent alone: A up to and including 80, B above 80 up to and including *)
(* 95, C above 95.                                                         *)
C5_AbcThresholds ==
    Classified =>
        \A i \in DOMAIN abc_analysis[1].rows :
            LET r == abc_analysis[1].rows[i]
                pct == CumulativePct(i)
            IN  /\ r.Revenue_Cumsum_Pct = Fin(pct)
                /\ r.ABC_Category = "A" <=> RLe(pct, RInt(80))
                /\ r.ABC_Category = "B" <=> RLt(RInt(80), pct) /\ RLe(pct, RInt(95))
                /\ r.ABC_Category = "C" <=> RLt(RInt(95), pct)

\* outlets with 8000, 1500 and 500: cumulative percent exactly 80 is A,
\* exactly 95 is B, 100 is C
C5_Witness ==
    /\ Classified
    /\ Len(abc_analysis[1].rows) = 3
    /\ abc_analysis[1].rows[1].Revenue_Cumsum_Pct = Fin(RInt(80))
    /\ abc_analysis[1].rows[1].ABC_Category = "A"
    /\ abc_analysis[1].rows[2].Revenue_Cumsum_Pct = Fin(RInt(95))
    /\ abc_analysis[1].rows[2].ABC_Category = "B"
    /\ abc_analysis[1].rows[3].Revenue_Cumsum_Pct = Fin(RInt(100))
    /\ abc_analysis[1].rows[3].ABC_Category = "C"

\* total actual revenue of the reconciled table
TotalRevenueFact ==
    ISum([i \in DOMAIN df_merged[1].rows |-> df_merged[1].rows[i].Revenue_Fact])

OutletsOf(rws) == {rws[i].Magazin : i \in DOMAIN rws}

(* C6: when the total actual revenue of the reconciled table is 0, the     *)
(* classification returns a table with one row per outlet, each with       *)
(* cumulative percent 0 and category A.                                    *)
C6_ZeroTotal ==
    (Classified /\ TotalRevenueFact = 0) =>
        /\ abc_analysis # None
        /\ Len(abc_analysis[1].rows) = Cardinality(OutletsOf(df_merged[1].rows))
        /\ \A i \in DOMAIN abc_analysis[1].rows :
              /\ abc_analysis[1].rows[i].Revenue_Cumsum_Pct = Fin(RZero)
              /\ abc_analysis[1].rows[i].ABC_Category = "A"

\* three outlets without actual revenue, all classified A
C6_Witness ==
    /\ Classified
    /\ TotalRevenueFact = 0
    /\ Len(abc_analysis[1].rows) = 3
    /\ \A i \in DOMAIN abc_analysis[1].rows :
          /\ abc_analysis[1].rows[i].Revenue_Cumsum_Pct = Fin(RZero)
          /\ abc_analysis[1].rows[i].ABC_Category = "A"

-----------------------------------------------------------------------------
(* Monthly series and forecast accuracy.                                   *)

\* the years the months of the model lie in
Years == 2024..2027

\* the text 'YYYY-MM' of every month of these years
MonthTexts == [t \in Years \X (1..12) |-> MonthStr(t[1], t[2])]

\* pd.Period(month): <<year, month>> of the text 'YYYY-MM'
Period(s) == CHOOSE t \in DOMAIN MonthTexts : MonthTexts[t] = s

\* months since year 0 of the period <<year, month>>
PeriodIndex(t) == t[1] * 12 + t[2] - 1

\* months since year 0; 'YYYY-MM' texts sort in this order
MonthIndex(s) == PeriodIndex(Period(s))

MonthOfIndex(n) == MonthStr(n \div 12, (n % 12) + 1)

\* (period + k).strftime('%Y-%m')
MonthAfter(s, k) == MonthOfIndex(MonthIndex(s) + k)

RECURSIVE SortMonths(_)

SortFrom(first, S) == <<first>> \o SortMonths(S \ {first})

SortMonths(S) ==
    IF S = {} THEN <<>>
    ELSE SortFrom(CHOOSE x \in S : \A y \in S : MonthIndex(x) <= MonthIndex(y), S)

\* one row of the table returned by forecast_with_multiple_models
ForecastRow(month, rev, uni, name, key, acc) ==
    [Month |-> month, Forecast_Revenue |-> rev, Forecast_Units |-> uni,
     Model |-> name, Model_Key |-> key,
     MAPE |-> acc.MAPE, RMSE |-> acc.RMSE, MAE |-> acc.MAE,
     RMSE_Pct |-> acc.RMSE_Pct, MAE_Pct |-> acc.MAE_Pct,
     Mean_Value |-> acc.Mean_Value]

FORECAST_COLUMNS == <<"Month", "Forecast_Revenue", "Forecast_Units", "Model",
                      "Model_Key", "MAPE", "RMSE", "MAE", "RMSE_Pct", "MAE_Pct",
                      "Mean_Value">>

\* the sums of Sum and Qty over the rows of each month
MonthSums(rws, months) ==
    Values([i \in DOMAIN months |->
       [Qty |-> ISum([k \in DOMAIN rws |-> IF rws[k].Month = months[i] THEN rws[k].Qty ELSE 0]),
        Sum |-> ISum([k \in DOMAIN rws |-> IF rws[k].Month = months[i] THEN rws[k].Sum ELSE 0]),
        Month |-> months[i]]])

\* df_fact_detailed.groupby('Month').agg(sum).reset_index().sort_values('Month'):
\* the rows of the monthly series, oldest month first
MonthlySales(rws) == MonthSums(rws, SortMonths({rws[i].Month : i \in DOMAIN rws}))

\* np.mean
Mean(s) == RDiv(RSum(s), RInt(Len(s)))

\* np.mean(growth_rates) if growth_rates else 0
MeanOrZero(growth_rates) == IF growth_rates # <<>> THEN Mean(growth_rates) ELSE RZero

\* the growth rates with the current month as the base
GrowthRatesOverCurrent(monthly, steps) ==
    [k \in DOMAIN steps |->
        RMul(Rat(monthly[steps[k] + 1].Sum - monthly[steps[k]].Sum,
                 IF monthly[steps[k] + 1].Sum = 0 THEN 1 ELSE monthly[steps[k] + 1].Sum),
             RInt(100))]

\* the growth rates of the months steps, those with prev_revenue > 0
GrowthRates(monthly, steps) ==
    [k \in DOMAIN steps |->
        RMul(Rat(monthly[steps[k] + 1].Sum - monthly[steps[k]].Sum, monthly[steps[k]].Sum),
             RInt(100))]

GrowthOf(monthly) ==
    IF Len(monthly) < 2 THEN <<RZero, monthly>>
    ELSE <<MeanOrZero(GrowthRates(monthly,
               SelectSeq([i \in 1..(Len(monthly) - 1) |-> i], LAMBDA i : monthly[i].Sum > 0))),
           monthly>>

\* calculate_growth_rate: <<avg_growth_rate, monthly_sales>>
calculate_growth_rate(mergedArg, detailedArg) == GrowthOf(MonthlySales(detailedArg.rows))

RECURSIVE SqrtSearch(_, _, _)
SqrtSearch(m, lo, hi) ==
    IF lo = hi THEN lo
    ELSE IF ((lo + hi + 1) \div 2) * ((lo + hi + 1) \div 2) <= m
    THEN SqrtSearch(m, (lo + hi + 1) \div 2, hi)
    ELSE SqrtSearch(m, lo, ((lo + hi + 1) \div 2) - 1)

\* the whole part of the square root of m
ISqrt(m) == SqrtSearch(m, 0, 46340)

RECURSIVE FloorScaled(_, _, _, _)
\* long division: <<whole part, remainder>> of (q + r/d) times the factors
FloorScaled(q, r, d, factors) ==
    IF factors = <<>> THEN <<q, r>>
    ELSE FloorScaled(q * factors[1] + (r * factors[1]) \div d,
                     (r * factors[1]) % d, d, Tail(factors))

\* j / 2 to the nearest whole number, j the whole part of a number that is
\* j itself when tie: an even j rounds down, an odd j rounds up unless tie,
\* which goes to the even number
HalfToEven(j, tie) ==
    IF j % 2 = 0 THEN j \div 2
    ELSE IF tie THEN (j \div 2) + ((j \div 2) % 2)
    ELSE (j \div 2) + 1

RootOf(scaled, j) == Rat(HalfToEven(j, scaled[2] = 0 /\ j * j = scaled[1]), 100)

RootOfScaled(scaled) == RootOf(scaled, ISqrt(scaled[1]))

\* round(np.sqrt(x), 2) of a number x >= 0, from the whole part of
\* 200 * sqrt(x), the root of 40000 x
RoundSqrt2(x) ==
    RootOfScaled(FloorScaled(x[1] \div x[2], x[1] % x[2], x[2], <<4, 10, 10, 10, 10>>))

\* the dictionary returned, from the unrounded metrics (mse is RMSE squared)
Accuracy(mape, mse, mae, mean_value) ==
    [MAPE |-> Round2(mape),
     RMSE |-> RoundSqrt2(mse),
     MAE |-> Round2(mae),
     RMSE_Pct |-> IF RLt(RZero, mean_value)
                  THEN RoundSqrt2(RMul(RDiv(mse, RMul(mean_value, mean_value)), RInt(10000)))
                  ELSE RZero,
     MAE_Pct |-> IF RLt(RZero, mean_value)
                 THEN Round2(RMul(RDiv(mae, mean_value), RInt(100)))
                 ELSE RZero,
     Mean_Value |-> Round2(mean_value)]

\* the mean absolute error as a fraction, not as a percentage
MapeFraction(y_true, err, mask) ==
    RDiv(RSum([i \in DOMAIN y_true |->
                  IF i \in mask THEN RAbs(RDiv(err[i], y_true[i])) ELSE RZero]),
         RInt(Cardinality(mask)))

\* np.mean(np.abs((y_true - y_pred) / y_true)) * 100 over the cells of mask
Mape(y_true, err, mask) ==
    RMul(RDiv(RSum([i \in DOMAIN y_true |->
                       IF i \in mask THEN RAbs(RDiv(err[i], y_true[i])) ELSE RZero]),
              RInt(Cardinality(mask))), RInt(100))

SquaredMean(err) == Mean([i \in DOMAIN err |-> RMul(err[i], err[i])])

AbsMean(err) == Mean([i \in DOMAIN err |-> RAbs(err[i])])

\* the metrics of the errors err = y_true - y_pred
AccuracyOf(y_true, err, mask) ==
    IF mask = {}
    THEN [MAPE |-> RZero, RMSE |-> RZero, MAE |-> RZero, RMSE_Pct |-> RZero,
          MAE_Pct |-> RZero, Mean_Value |-> RZero]
    ELSE Accuracy(Mape(y_true, err, mask), SquaredMean(err), AbsMean(err), Mean(y_true))

calculate_forecast_accuracy(y_true, y_pred) ==
    AccuracyOf(y_true, Values([i \in DOMAIN y_true |-> RSub(y_true[i], y_pred[i])]),
               {i \in DOMAIN y_true : y_true[i][1] # 0})

-----------------------------------------------------------------------------
(* The forecast models.  A model returns the pair <<model_result, accuracy>>*)
(* with both members present or both None.  The model names, Russian texts *)
(* in the source, are written in English here.                             *)

NoForecast == <<None, None>>

\* f'{x}' of a number of tenths x >= 0
FloatStr(x) == ToString(x[1] \div x[2]) \o "." \o ToString(((10 * x[1]) \div x[2]) % 10)

ModelResult(rev, uni, name, acc) ==
    <<Some([revenue |-> rev, units |-> uni, model_name |-> name]), Some(acc)>>

\* monthly_sales['Sum'].values, monthly_sales['Qty'].values
Column(monthly, what) ==
    [i \in DOMAIN monthly |-> RInt(IF what = "Sum" THEN monthly[i].Sum ELSE monthly[i].Qty)]

\* the predictions as they are, negative ones included
Unclamped(a) == Values([i \in DOMAIN a |-> a[i]])

\* np.maximum(a, 0)
Clamp(a) == Values([i \in DOMAIN a |-> RMax(a[i], RZero)])

LenAtMost(monthly, minimum) == Len(monthly) <= minimum

\* len(monthly_sales) < minimum: the series is too short for the model
LenBelow(monthly, minimum) == Len(monthly) < minimum

\* the polynomials 1, P1, P2 orthogonal over the points 0 .. n - 1
P1(n, t) == 2 * t - (n - 1)

P2(n, t) == 3 * P1(n, t) * P1(n, t) - (n * n - 1)

\* the term of the projection on P1 at x
LinearTerm(y, n, x) ==
    Rat(P1(n, x) * ISum([i \in 1..n |-> P1(n, i - 1) * y[i]]),
        ISum([i \in 1..n |-> P1(n, i - 1) * P1(n, i - 1)]))

\* the term of the projection on P2 at x
QuadraticTerm(y, n, x) ==
    Rat(P2(n, x) * ISum([i \in 1..n |-> P2(n, i - 1) * y[i]]),
        ISum([i \in 1..n |-> P2(n, i - 1) * P2(n, i - 1)]))

PolyOf(line, y, degree, x) ==
    IF degree = 1 THEN line ELSE RAdd(line, QuadraticTerm(y, Len(y), x))

\* LinearRegression().fit(...).predict(...) on the powers 1, x, .., x^degree
\* of the month index: the value at x of the least-squares polynomial through
\* (0, y[1]), .., (n - 1, y[n]), by projection on the orthogonal polynomials
PolyFit(y, degree, x) ==
    PolyOf(RAdd(Rat(ISum(y), Len(y)), LinearTerm(y, Len(y), x)), y, degree, x)

\* the model fitted to each of the two columns and asked for the history
\* (accuracy) and the future months
Regression(monthly, y_revenue, y_units, horizon, degree, name) ==
    ModelResult(
        Clamp([k \in 1..horizon |-> PolyFit(y_revenue, degree, Len(monthly) + k - 1)]),
        Clamp([k \in 1..horizon |-> PolyFit(y_units, degree, Len(monthly) + k - 1)]),
        name,
        calculate_forecast_accuracy(Column(monthly, "Sum"),
            [i \in DOMAIN monthly |-> PolyFit(y_revenue, degree, i - 1)]))

RegressionForecast(monthly, horizon, degree, name) ==
    Regression(monthly, Values([i \in DOMAIN monthly |-> monthly[i].Sum]),
               Values([i \in DOMAIN monthly |-> monthly[i].Qty]), horizon, degree, name)

forecast_linear_regression(monthly, horizon) ==
    IF LenBelow(monthly, 2) THEN NoForecast
    ELSE RegressionForecast(monthly, horizon, 1, "Linear regression")

forecast_polynomial_regression(monthly, horizon, degree) ==
    IF LenBelow(monthly, degree + 1) THEN NoForecast
    ELSE RegressionForecast(monthly, horizon, degree,
             "Polynomial regression (degree " \o ToString(degree) \o ")")

RECURSIVE SmoothFrom(_, _, _)
\* the loop of exp_smoothing: result grows by one value per pass
SmoothFrom(data, alpha, result) ==
    IF Len(result) = Len(data) THEN result
    ELSE SmoothFrom(data, alpha,
            Append(result, RAdd(RMul(alpha, data[Len(result) + 1]),
                                RMul(RSub(RInt(1), alpha), result[Len(result)]))))

\* smoothing that gives the weight alpha to the past instead of the new value
exp_smoothing_swapped(data, alpha) == SmoothFrom(data, RSub(RInt(1), alpha), <<data[1]>>)

exp_smoothing(data, alpha) == SmoothFrom(data, alpha, <<data[1]>>)

\* the forecast of month i after the last: last value + trend * i
Trended(last, trend, horizon) ==
    Clamp([i \in 1..horizon |-> RAdd(last, RMul(trend, RInt(i)))])

\* the trend: the last value minus the one before it, 0 for a single value
TrendOf(data) ==
    IF Len(data) >= 2 THEN RSub(data[Len(data)], data[Len(data) - 1]) ELSE RZero

Smoothed(revenue_data, units_data, smoothed_revenue, horizon, alpha) ==
    ModelResult(Trended(smoothed_revenue[Len(smoothed_revenue)],
                        TrendOf(smoothed_revenue), horizon),
                Trended(units_data[Len(units_data)], TrendOf(units_data), horizon),
                "Exponential smoothing (alpha=" \o FloatStr(alpha) \o ")",
                calculate_forecast_accuracy(revenue_data, smoothed_revenue))

Smoothing(revenue_data, units_data, horizon, alpha) ==
    Smoothed(revenue_data, units_data, exp_smoothing(revenue_data, alpha), horizon, alpha)

forecast_exponential_smoothing(monthly, horizon, alpha) ==
    IF LenBelow(monthly, 2) THEN NoForecast
    ELSE Smoothing(Column(monthly, "Sum"), Column(monthly, "Qty"), horizon, alpha)

\* np.sum(weights * values); the product has the length of weights
WeightedSum(weights, values) ==
    RSum([k \in DOMAIN weights |-> RMul(weights[k], values[k])])

\* a[1:]
Rest(a) == IF a = <<>> THEN <<>> ELSE Tail(a)

RECURSIVE WmaSteps(_, _, _)

\* one pass of the loop over range(periods): the next value, then the window
\* moved on by it
WmaStep(weights, last_values, next, k) ==
    <<RMax(next, RZero)>> \o WmaSteps(weights, Append(Rest(last_values), next), k - 1)

WmaSteps(weights, last_values, k) ==
    IF k = 0 THEN <<>>
    ELSE WmaStep(weights, last_values, WeightedSum(weights, last_values), k)

\* a[-window:], all of a when window is 0
LastOf(a, win) == IF win = 0 THEN a ELSE SubSeq(a, Len(a) - win + 1, Len(a))

\* wma_revenue: the value itself in the first window - 1 months, then the
\* weighted sum of the window ending in the month
WmaHistory(revenue_data, weights, win) ==
    [i \in DOMAIN revenue_data |->
        IF i < win THEN revenue_data[i]
        ELSE WeightedSum(weights, SubSeq(revenue_data, i - win + 1, i))]

Averaged(revenue_data, units_data, weights, horizon, win) ==
    ModelResult(WmaSteps(weights, LastOf(revenue_data, win), horizon),
                WmaSteps(weights, LastOf(units_data, win), horizon),
                "Weighted moving average (window=" \o ToString(win) \o ")",
                calculate_forecast_accuracy(revenue_data,
                                            WmaHistory(revenue_data, weights, win)))

\* weights that favour the oldest month of the window
WeightsOldestFirst(win) == [k \in 1..win |-> Rat(win + 1 - k, (win * (win + 1)) \div 2)]

\* np.arange(1, window + 1) / its sum
Weights(win) == [k \in 1..win |-> Rat(k, (win * (win + 1)) \div 2)]

forecast_weighted_moving_average(monthly, horizon, win) ==
    IF LenBelow(monthly, win) THEN NoForecast
    ELSE Averaged(Column(monthly, "Sum"), Column(monthly, "Qty"), Weights(win), horizon, win)

Min(a, b) == IF a < b THEN a ELSE b

\* the window of the calls in forecast_ensemble and forecast_with_multiple_models
DefaultWindow == 3

\* the smoothing factor of these calls
Alpha == Rat(3, 10)

\* the four models forecast_ensemble and forecast_with_multiple_models run
RunModels(monthly, horizon) ==
    << forecast_linear_regression(monthly, horizon),
       forecast_polynomial_regression(monthly, horizon, 2),
       forecast_exponential_smoothing(monthly, horizon, Alpha),
       forecast_weighted_moving_average(monthly, horizon, Min(DefaultWindow, Len(monthly))) >>

MeanOverFour(s) == RDiv(RSum(s), RInt(4))

\* np.mean(valid_forecasts, axis=0) at one future month
EnsembleMean(s) == Mean(s)

first_accuracy(accuracies) == accuracies[1]

\* round(np.mean([acc[...] for acc in accuracies]), 2) for every metric
avg_accuracy(accuracies) ==
    [MAPE |-> Round2(Mean([j \in DOMAIN accuracies |-> accuracies[j].MAPE])),
     RMSE |-> Round2(Mean([j \in DOMAIN accuracies |-> accuracies[j].RMSE])),
     MAE |-> Round2(Mean([j \in DOMAIN accuracies |-> accuracies[j].MAE])),
     RMSE_Pct |-> Round2(Mean([j \in DOMAIN accuracies |-> accuracies[j].RMSE_Pct])),
     MAE_Pct |-> Round2(Mean([j \in DOMAIN accuracies |-> accuracies[j].MAE_Pct])),
     Mean_Value |-> Round2(Mean([j \in DOMAIN accuracies |-> accuracies[j].Mean_Value]))]

\* the ensemble of the models that returned a result
Ensemble(valid, horizon) ==
    IF valid = <<>> THEN NoForecast
    ELSE ModelResult(
            Values([k \in 1..horizon |->
                       EnsembleMean([j \in DOMAIN valid |-> valid[j][1][1].revenue[k]])]),
            Values([k \in 1..horizon |->
                       EnsembleMean([j \in DOMAIN valid |-> valid[j][1][1].units[k]])]),
            "Ensemble",
            avg_accuracy([j \in DOMAIN valid |-> valid[j][2][1]]))

\* forecast_ensemble after its four calls: models holds what they returned
EnsembleOf(models, horizon) ==
    Ensemble(SelectSeq(models, LAMBDA m : m[1] # None), horizon)

forecast_ensemble(monthly, horizon) == EnsembleOf(RunModels(monthly, horizon), horizon)

RECURSIVE Concat(_)
Concat(ss) == IF ss = <<>> THEN <<>> ELSE ss[1] \o Concat(Tail(ss))

MODEL_KEYS == <<"linear", "polynomial", "exponential", "wma", "ensemble">>

\* the rows of one model: none when it returned None
ModelForecasts(model, key, last_month_date, horizon) ==
    IF model[1] # None /\ model[2] # None
    THEN [i \in 1..horizon |->
            ForecastRow(MonthAfter(last_month_date, i),
                        model[1][1].revenue[i],
                        Trunc(model[1][1].units[i]),
                        model[1][1].model_name,
                        key,
                        model[2][1])]
    ELSE <<>>

ResultsOf(results) ==
    IF results = <<>> THEN None ELSE Some(DataFrame(FORECAST_COLUMNS, results))

AllModels(all_models, last_month_date, horizon) ==
    ResultsOf(Concat([j \in DOMAIN all_models |->
        ModelForecasts(all_models[j], MODEL_KEYS[j], last_month_date, horizon)]))

\* forecast_ensemble runs the four models again, with the same results
WithEnsemble(models, last_month_date, horizon) ==
    AllModels(models \o <<EnsembleOf(models, horizon)>>, last_month_date, horizon)

ForecastOf(monthly, horizon) ==
    IF Len(monthly) < 2 THEN None
    ELSE WithEnsemble(RunModels(monthly, horizon), monthly[Len(monthly)].Month, horizon)

forecast_with_multiple_models(mergedArg, detailedArg, horizon) ==
    ForecastOf(calculate_growth_rate(mergedArg, detailedArg)[2], horizon)

-----------------------------------------------------------------------------
(* Forecasting: the history main() holds after prepare_data.               *)

MaxPoints == 3
MaxPeriods == 2
MaxWindow == 3

\* Price, Qty, Sum of the one sale of a month
PointValues == {<<0, 1, 0>>, <<1, 2, 2>>, <<5, 1, 5>>}

\* the fact table of a history, newest month first; a history starts in
\* October 2025, so that the forecast months pass the end of the year, and
\* a history without a month is a table whose only row has no date
HistoryFacts(points) ==
    IF points = <<>>
    THEN DataFrame(REQUIRED_FACT_COLUMNS, <<FactRow("A", TextCell, "S", 1, 2, 2)>>)
    ELSE DataFrame(REQUIRED_FACT_COLUMNS,
            [i \in DOMAIN points |->
                LET v == points[Len(points) + 1 - i]
                    m == 10 + Len(points) - i
                IN  FactRow("A", Timestamp(2025 + (m - 1) \div 12, ((m - 1) % 12) + 1, 15),
                            "S", v[1], v[2], v[3])])

HistoryPlan == DataFrame(REQUIRED_PLAN_COLUMNS, <<PlanRow("A", "S", "2025-10", 300, 3)>>)

InitForecast ==
    /\ op = "init"
    /\ \E points \in SeqsUpTo(PointValues, MaxPoints) :
          \E r \in {prepare_data(Some(HistoryFacts(points)), Some(HistoryPlan))} :
              /\ df_fact = r.caller_fact
              /\ df_plan = Some(HistoryPlan)
              /\ df_merged = r.ret_merged
              /\ df_fact_detailed = r.ret_fact
              /\ date_errors = r.n_errors
              /\ monthly_sales = calculate_growth_rate(r.ret_merged[1], r.ret_fact[1])[2]
    /\ periods \in 1..MaxPeriods
    /\ window = 0 /\ forecast = None /\ forecast_df = None
    /\ IdleDiv /\ IdleAbc /\ IdleLater

Call_model(name, win, result) ==
    /\ op = "init"
    /\ op' = name
    /\ window' = win
    /\ forecast' = result
    /\ UNCHANGED <<later, numerator, denominator, default, quotient, df_fact, df_plan,
                   df_merged, df_fact_detailed, date_errors, abc_analysis,
                   monthly_sales, periods, forecast_df>>

ForecastLinearRegression ==
    Call_model("forecast_linear_regression", window,
               forecast_linear_regression(monthly_sales, periods))

ForecastPolynomialRegression ==
    Call_model("forecast_polynomial_regression", window,
               forecast_polynomial_regression(monthly_sales, periods, 2))

ForecastExponentialSmoothing ==
    Call_model("forecast_exponential_smoothing", window,
               forecast_exponential_smoothing(monthly_sales, periods, Alpha))

ForecastWeightedMovingAverage ==
    \E win \in 1..MaxWindow :
        Call_model("forecast_weighted_moving_average", win,
                   forecast_weighted_moving_average(monthly_sales, periods, win))

ForecastEnsemble ==
    Call_model("forecast_ensemble", window, forecast_ensemble(monthly_sales, periods))

\* all_forecasts_df = forecast_with_multiple_models(df_filtered, df_fact_detailed, forecast_periods)
ForecastWithMultipleModels ==
    /\ op = "init"
    /\ op' = "forecast_with_multiple_models"
    /\ forecast_df' = forecast_with_multiple_models(df_merged[1], df_fact_detailed[1], periods)
    /\ UNCHANGED <<later, numerator, denominator, default, quotient, df_fact, df_plan,
                   df_merged, df_fact_detailed, date_errors, abc_analysis,
                   monthly_sales, periods, window, forecast>>

NextForecast ==
    \/ ForecastLinearRegression
    \/ ForecastPolynomialRegression
    \/ ForecastExponentialSmoothing
    \/ ForecastWeightedMovingAverage
    \/ ForecastEnsemble
    \/ ForecastWithMultipleModels

SpecForecast == InitForecast /\ [][NextForecast]_vars

-----------------------------------------------------------------------------
(* What the claims about the forecast models read off a state.             *)

Ensembled == op = "forecast_ensemble"

\* those of the four models that produced a result on the series of the
\* state, in the ensemble's order
Contributing == SelectSeq(RunModels(monthly_sales, periods), LAMBDA m : m[1] # None)

\* the arithmetic mean of the values: sum over count
IsMeanOf(x, values) == RMul(x, RInt(Len(values))) = RSum(values)

(* C7: the ensemble's revenue and units of every future month are the      *)
(* arithmetic mean (sum over count) of the forecasts of exactly the models *)
(* that produced a result, and there is an ensemble forecast whenever there*)
(* is such a model.                                                        *)
C7_EnsembleMean ==
    Ensembled =>
        LET c == Contributing
        IN  /\ forecast[1] = None <=> c = <<>>
            /\ forecast[1] # None =>
                  /\ Len(forecast[1][1].revenue) = periods
                  /\ Len(forecast[1][1].units) = periods
                  /\ \A k \in 1..periods :
                        /\ IsMeanOf(forecast[1][1].revenue[k],
                                    [j \in DOMAIN c |-> c[j][1][1].revenue[k]])
                        /\ IsMeanOf(forecast[1][1].units[k],
                                    [j \in DOMAIN c |-> c[j][1][1].units[k]])

\* a two-month history: the polynomial lacks data, the other three models
\* disagree about the first future month and the ensemble averages the three
C7_Witness ==
    /\ Ensembled
    /\ Len(monthly_sales) = 2
    /\ forecast[1] # None
    /\ RLt(RZero, forecast[1][1].revenue[1])
    /\ LET c == Contributing
       IN  /\ Len(c) = 3
           /\ \E i, j \in DOMAIN c : c[i][1][1].revenue[1] # c[j][1][1].revenue[1]

Metrics == {"MAPE", "RMSE", "MAE", "RMSE_Pct", "MAE_Pct"}

\* the arithmetic mean of a metric over the models c
MetricMean(c, metric) ==
    RDiv(RSum([j \in DOMAIN c |-> c[j][2][1][metric]]), RInt(Len(c)))

(* C8 as the specification states it: every accuracy metric of the         *)
(* ensemble is the arithmetic mean of that metric over the contributing    *)
(* models.                                                                 *)
C8_ExactMetricMean ==
    (Ensembled /\ forecast[2] # None) =>
        LET c == Contributing
        IN  \A metric \in Metrics : forecast[2][1][metric] = MetricMean(c, metric)

(* C8 amended: every accuracy metric of the ensemble is the arithmetic     *)
(* mean of that metric over the contributing models rounded to two         *)
(* decimals.                                                               *)
C8_RoundedMetricMean ==
    (Ensembled /\ forecast[2] # None) =>
        LET c == Contributing
        IN  \A metric \in Metrics :
                RoundedTo2(forecast[2][1][metric], MetricMean(c, metric))

\* four contributing models with different MAPE, whose mean has more than
\* two decimals: the ensemble reports the rounded mean
C8_Witness ==
    /\ Ensembled
    /\ forecast[2] # None
    /\ LET c == Contributing
           mean == MetricMean(c, "MAPE")
       IN  /\ Len(c) = 4
           /\ \E i, j \in DOMAIN c : c[i][2][1].MAPE # c[j][2][1].MAPE
           /\ forecast[2][1].MAPE # mean
           /\ forecast[2][1].MAPE = Round2(mean)

ModelKeysIn(df) == {df.rows[i].Model_Key : i \in DOMAIN df.rows}

(* C9: a model returns no result exactly when the series is shorter than   *)
(* its minimum (2 for linear regression and exponential smoothing, 3 for   *)
(* the degree-2 polynomial, window for the weighted moving average); the   *)
(* table of forecast_with_multiple_models is absent exactly for fewer than *)
(* 2 points and otherwise has one row per future month for the ensemble and*)
(* for each model with enough data, none for the others.                   *)
C9_InsufficientData ==
    /\ op = "forecast_linear_regression" =>
          (forecast = NoForecast <=> Len(monthly_sales) < 2)
    /\ op = "forecast_exponential_smoothing" =>
          (forecast = NoForecast <=> Len(monthly_sales) < 2)
    /\ op = "forecast_polynomial_regression" =>
          (forecast = NoForecast <=> Len(monthly_sales) < 3)
    /\ op = "forecast_weighted_moving_average" =>
          (forecast = NoForecast <=> Len(monthly_sales) < window)
    /\ op \in {"forecast_linear_regression", "forecast_exponential_smoothing",
               "forecast_polynomial_regression", "forecast_weighted_moving_average"} =>
          (forecast # NoForecast => forecast[1] # None /\ forecast[2] # None)
    /\ op = "forecast_with_multiple_models" =>
          /\ forecast_df = None <=> Len(monthly_sales) < 2
          /\ forecast_df # None =>
                /\ ModelKeysIn(forecast_df[1])
                     = {"linear", "exponential", "wma", "ensemble"}
                       \cup (IF Len(monthly_sales) < 3 THEN {} ELSE {"polynomial"})
                /\ \A key \in ModelKeysIn(forecast_df[1]) :
                      Cardinality({i \in DOMAIN forecast_df[1].rows :
                                     forecast_df[1].rows[i].Model_Key = key}) = periods

\* a two-month history: rows of the linear, exponential, moving-average and
\* ensemble forecasts, none of the polynomial
C9_Witness ==
    /\ op = "forecast_with_multiple_models"
    /\ Len(monthly_sales) = 2
    /\ forecast_df # None
    /\ ModelKeysIn(forecast_df[1]) = {"linear", "exponential", "wma", "ensemble"}

(* C10 as the specification states it: for a series of fewer than 2 points *)
(* forecast_ensemble returns no result.                                    *)
C10_EnsembleNeedsTwoPoints ==
    (Ensembled /\ Len(monthly_sales) < 2) => forecast = NoForecast

-----------------------------------------------------------------------------
(* apply_scenario: a scenario applied to the forecast table. The Russian   *)
(* scenario names are written in English.                                  *)

SCENARIOS == {"optimistic", "realistic", "pessimistic"}

\* a table of factors that is not the one of the code
scenario_factors_flat(s) ==
    CASE s = "optimistic" -> Rat(6, 5)
      [] s = "realistic" -> RInt(1)
      [] s = "pessimistic" -> Rat(4, 5)
      [] OTHER -> RInt(1)

\* scenario_factors.get(scenario, 1.0)
scenario_factors(s) ==
    CASE s = "optimistic" -> Rat(6, 5)
      [] s = "realistic" -> RInt(1)
      [] s = "pessimistic" -> Rat(17, 20)
      [] OTHER -> RInt(1)

scenario_names(s) ==
    CASE s = "optimistic" -> "Optimistic"
      [] s = "realistic" -> "Realistic"
      [] s = "pessimistic" -> "Pessimistic"

SCENARIO_COLUMNS == FORECAST_COLUMNS \o <<"Scenario", "Scenario_Factor">>

\* one row of df_scenario; .astype(int) drops the fraction of the product
ScenarioRow(r, name, factor) ==
    [Month |-> r.Month,
     Forecast_Revenue |-> RMul(r.Forecast_Revenue, factor),
     Forecast_Units |-> Trunc(RMul(RInt(r.Forecast_Units), factor)),
     Model |-> r.Model, Model_Key |-> r.Model_Key,
     MAPE |-> r.MAPE, RMSE |-> r.RMSE, MAE |-> r.MAE,
     RMSE_Pct |-> r.RMSE_Pct, MAE_Pct |-> r.MAE_Pct,
     Mean_Value |-> r.Mean_Value,
     Scenario |-> name, Scenario_Factor |-> factor]

Scaled(df, name, factor) ==
    DataFrame(SCENARIO_COLUMNS,
              Values([i \in DOMAIN df.rows |-> ScenarioRow(df.rows[i], name, factor)]))

apply_scenario(forecastArg, s) ==
    IF forecastArg = None \/ forecastArg[1].rows = <<>> THEN None
    ELSE Some(Scaled(forecastArg[1], scenario_names(s), scenario_factors(s)))

-----------------------------------------------------------------------------
(* Scenarios: main() holds the forecast table of a history.                *)

division == <<numerator, denominator, default, quotient>>

tables == <<df_fact, df_plan, df_merged, df_fact_detailed, date_errors>>

forecasting == <<monthly_sales, periods, window, forecast>>

\* the tables and the monthly sales main() holds after prepare_data
HistoryPrepared(points) ==
    \E r \in {prepare_data(Some(HistoryFacts(points)), Some(HistoryPlan))} :
        /\ df_fact = r.caller_fact
        /\ df_plan = Some(HistoryPlan)
        /\ df_merged = r.ret_merged
        /\ df_fact_detailed = r.ret_fact
        /\ date_errors = r.n_errors
        /\ monthly_sales = calculate_growth_rate(r.ret_merged[1], r.ret_fact[1])[2]

InitScenario ==
    /\ op = "init"
    /\ \E points \in SeqsUpTo(PointValues, MaxPoints) : HistoryPrepared(points)
    /\ periods \in 1..MaxPeriods
    /\ window = 0 /\ forecast = None
    /\ forecast_df = ForecastOf(monthly_sales, periods)
    /\ IdleDiv /\ IdleAbc /\ IdleLater

\* scenario_df = apply_scenario(all_forecasts_df, selected_scenario)
ApplyScenario ==
    /\ op = "init"
    /\ op' = "apply_scenario"
    /\ \E s \in SCENARIOS :
          /\ scenario' = s
          /\ df_scenario' = apply_scenario(forecast_df, s)
    /\ UNCHANGED <<division, tables, forecasting, abc_analysis, forecast_df,
                   avg_growth_rate, adjustment_factor, smart_plan,
                   financial_metrics, recommendations, loading>>

NextScenario == ApplyScenario

SpecScenario == InitScenario /\ [][NextScenario]_vars

-----------------------------------------------------------------------------
(* What the claims about scenarios read off a state.                       *)

ScenarioApplied == op = "apply_scenario" /\ forecast_df # None

\* the factor the specification gives for a scenario
StatedFactor(s) ==
    IF s = "optimistic" THEN Rat(120, 100)
    ELSE IF s = "pessimistic" THEN Rat(85, 100) ELSE Rat(100, 100)

\* the columns a scenario leaves alone
SameForecast(a, b) ==
    /\ a.Month = b.Month /\ a.Model = b.Model /\ a.Model_Key = b.Model_Key
    /\ a.MAPE = b.MAPE /\ a.RMSE = b.RMSE /\ a.MAE = b.MAE
    /\ a.RMSE_Pct = b.RMSE_Pct /\ a.MAE_Pct = b.MAE_Pct

\* k is a whole number nearest to x
IsNearest(k, x) == 2 * Abs(x[1] - k * x[2]) <= x[2]

(* C11: a scenario multiplies every forecast revenue by its factor (1.20   *)
(* optimistic, 1.00 realistic, 0.85 pessimistic), leaves month, model      *)
(* name, model key and accuracy metrics of every row unchanged, the        *)
(* ensemble's rows included, and keeps the number and order of the rows.   *)
C11_ScenarioScalesRevenue ==
    ScenarioApplied =>
        /\ df_scenario # None
        /\ Len(df_scenario[1].rows) = Len(forecast_df[1].rows)
        /\ \A i \in DOMAIN forecast_df[1].rows :
              /\ df_scenario[1].rows[i].Forecast_Revenue =
                    RMul(forecast_df[1].rows[i].Forecast_Revenue, StatedFactor(scenario))
              /\ SameForecast(df_scenario[1].rows[i], forecast_df[1].rows[i])

C11_Witness ==
    /\ ScenarioApplied
    /\ scenario = "pessimistic"
    /\ \E i \in DOMAIN forecast_df[1].rows :
          /\ forecast_df[1].rows[i].Model_Key = "ensemble"
          /\ RLt(RZero, forecast_df[1].rows[i].Forecast_Revenue)
          /\ RLt(RZero, forecast_df[1].rows[i].MAPE)
    /\ \E i \in DOMAIN forecast_df[1].rows : forecast_df[1].rows[i].Model_Key = "linear"

(* C12: a scenario scales each forecast unit count by its factor and       *)
(* rounds the product to the nearest whole number.                         *)
C12_UnitsRounded ==
    ScenarioApplied =>
        \A i \in DOMAIN forecast_df[1].rows :
            IsNearest(df_scenario[1].rows[i].Forecast_Units,
                      RMul(RInt(forecast_df[1].rows[i].Forecast_Units),
                           StatedFactor(scenario)))

-----------------------------------------------------------------------------
(* Growth: calculate_growth_rate and the linear regression on histories    *)
(* with months of no revenue and on the series 100, 110, 121, 133.1,       *)
(* which is held in tenths since the amounts of the model are whole.       *)

GrowthPoints == {<<0, 1, 0>>, <<100, 1, 100>>, <<110, 1, 110>>}

ExampleSeries == <<<<1000, 1, 1000>>, <<1100, 1, 1100>>, <<1210, 1, 1210>>, <<1331, 1, 1331>>>>

GrowthHistories == SeqsUpTo(GrowthPoints, MaxPoints) \cup {ExampleSeries}

InitGrowth ==
    /\ op = "init"
    /\ \E points \in GrowthHistories : HistoryPrepared(points)
    /\ periods \in 1..MaxPeriods
    /\ window = 0 /\ forecast = None /\ forecast_df = None
    /\ IdleDiv /\ IdleAbc /\ IdleLater

\* growth_rate, monthly_sales = calculate_growth_rate(df_filtered, df_fact_detailed)
CalculateGrowthRate ==
    /\ op = "init"
    /\ op' = "calculate_growth_rate"
    /\ avg_growth_rate' = Some(calculate_growth_rate(df_merged[1], df_fact_detailed[1])[1])
    /\ UNCHANGED <<division, tables, forecasting, abc_analysis, forecast_df,
                   scenario, df_scenario, adjustment_factor, smart_plan,
                   financial_metrics, recommendations, loading>>

NextGrowth ==
    \/ CalculateGrowthRate
    \/ ForecastLinearRegression

SpecGrowth == InitGrowth /\ [][NextGrowth]_vars

-----------------------------------------------------------------------------
(* What the claims about the growth rate read off a state.                 *)

Revenues(monthly) == [i \in DOMAIN monthly |-> monthly[i].Sum]

Chronological(monthly) ==
    \A i \in 1..(Len(monthly) - 1) : MonthIndex(monthly[i].Month) < MonthIndex(monthly[i + 1].Month)

\* the consecutive pairs whose earlier month has revenue
Qualifying(rev) == {i \in 1..(Len(rev) - 1) : rev[i] # 0}

PercentChange(prev, curr) == RDiv(RMul(RInt(curr - prev), RInt(100)), RInt(prev))

StatedGrowth(rev) ==
    IF Len(rev) < 2 \/ Qualifying(rev) = {} THEN RZero
    ELSE RDiv(RSum([i \in 1..(Len(rev) - 1) |->
                       IF i \in Qualifying(rev) THEN PercentChange(rev[i], rev[i + 1])
                       ELSE RZero]),
              RInt(Cardinality(Qualifying(rev))))

\* x lies within tol of c
Within(x, c, tol) == ~RLt(tol, RAbs(RSub(x, c)))

IsExample(monthly) == Revenues(monthly) = <<1000, 1100, 1210, 1331>>

(* C13: the growth rate is the mean of (curr - prev) / prev x 100 over the *)
(* consecutive months of the sorted series whose earlier month has         *)
(* revenue, 0 for fewer than 2 points or no such pair, and 10.0 within     *)
(* 0.01 for the series 100, 110, 121, 133.1.                               *)
C13_GrowthRate ==
    op = "calculate_growth_rate" =>
        /\ Chronological(monthly_sales)
        /\ avg_growth_rate = Some(StatedGrowth(Revenues(monthly_sales)))
        /\ IsExample(monthly_sales) => Within(avg_growth_rate[1], RInt(10), Rat(1, 100))

C13_Witness ==
    /\ op = "calculate_growth_rate"
    /\ Len(monthly_sales) = 3
    /\ Qualifying(Revenues(monthly_sales)) = {2}
    /\ RLt(avg_growth_rate[1], RZero)

LinearFitOfExample == op = "forecast_linear_regression" /\ IsExample(monthly_sales)

(* C14: for the series 100, 110, 121, 133.1 the linear regression reports  *)
(* an in-sample MAPE of 0.46, which is below half a percent.               *)
C14_ExampleMape ==
    LinearFitOfExample =>
        /\ forecast[2] # None
        /\ forecast[2][1].MAPE = Rat(46, 100)
        /\ RLt(forecast[2][1].MAPE, Rat(1, 2))

(* C14 as stated: the reported MAPE of that fit is 0 within 0.01.          *)
C14_ExampleMapeIsZero ==
    LinearFitOfExample => Within(forecast[2][1].MAPE, RZero, Rat(1, 100))

C14_Witness ==
    /\ LinearFitOfExample
    /\ forecast[1] # None
    /\ Len(forecast[1][1].revenue) = periods
    /\ RLt(RInt(1331), forecast[1][1].revenue[1])

-----------------------------------------------------------------------------
(* forecast_next_period and create_smart_plan.                             *)

RECURSIVE RPow(_, _)
\* x ** i for a whole i >= 0
RPow(x, i) == IF i = 0 THEN RInt(1) ELSE RMul(x, RPow(x, i - 1))

\* (1 + avg_growth_rate / 100) ** i
GrowthFactor(growth, i) == RPow(RAdd(RInt(1), RDiv(growth, RInt(100))), i)

\* one row of the table returned by forecast_next_period
GrowthRow(month, rev, uni, growth) ==
    [Month |-> month, Forecast_Revenue |-> rev, Forecast_Units |-> uni,
     Growth_Rate |-> growth]

GROWTH_COLUMNS == <<"Month", "Forecast_Revenue", "Forecast_Units", "Growth_Rate">>

NextPeriods(growth, last, horizon) ==
    DataFrame(GROWTH_COLUMNS,
        [i \in 1..horizon |->
            GrowthRow(MonthAfter(last.Month, i),
                      RMul(RInt(last.Sum), GrowthFactor(growth, i)),
                      Trunc(RMul(RInt(last.Qty), GrowthFactor(growth, i))),
                      growth)])

NextPeriodOf(growth, monthly, horizon) ==
    IF monthly = <<>> THEN None
    ELSE Some(NextPeriods(growth, monthly[Len(monthly)], horizon))

\* the growth rate and the monthly sales come from calculate_growth_rate
NextPeriodFrom(g, horizon) == NextPeriodOf(g[1], g[2], horizon)

forecast_next_period(mergedArg, detailedArg, horizon) ==
    NextPeriodFrom(calculate_growth_rate(mergedArg, detailedArg), horizon)

\* the (outlet, segment) pairs of the model in the order groupby sorts its keys
PairKeys == <<<<"A", "S">>, <<"A", "T">>, <<"B", "S">>>>

InPair(r, pair) == r.Magazin = pair[1] /\ r.Segment = pair[2]

\* the sum of column what over the rows of a pair
PairSum(rws, pair, what) ==
    RInt(ISum([k \in DOMAIN rws |-> IF InPair(rws[k], pair) THEN rws[k][what] ELSE 0]))

\* the mean of column what over the rows of a pair
PairMean(rws, pair, what) ==
    RDiv(RInt(ISum([k \in DOMAIN rws |-> IF InPair(rws[k], pair) THEN rws[k][what] ELSE 0])),
         RInt(Cardinality({k \in DOMAIN rws : InPair(rws[k], pair)})))

GroupMeans(rws, present) ==
    Values([i \in DOMAIN present |->
       [Magazin |-> present[i][1], Segment |-> present[i][2],
        Revenue_Fact |-> PairMean(rws, present[i], "Revenue_Fact"),
        Units_Fact |-> PairMean(rws, present[i], "Units_Fact")]])

\* the first pair of every outlet present
PresentOutlets(rws) ==
    SelectSeq(PairKeys, LAMBDA p : /\ \E i \in DOMAIN rws : rws[i].Magazin = p[1]
                                   /\ p[2] = "S")

\* the pairs present, in key order
PresentPairs(rws) == SelectSeq(PairKeys, LAMBDA p : \E i \in DOMAIN rws : InPair(rws[i], p))

\* df_merged.groupby(['Magazin', 'Segment']).agg({...: 'mean'}).reset_index()
store_segment_avg(rws) == GroupMeans(rws, PresentPairs(rws))

\* store_segment_avg['Revenue_Fact'].sum()
TotalOf(avg) == RSum([i \in DOMAIN avg |-> avg[i].Revenue_Fact])

\* the share taken of the pair's own revenue instead of the total
store_segment_share_own(row, total_revenue) ==
    safe_divide(Scalar(row.Revenue_Fact), Scalar(row.Revenue_Fact), RZero).val.num

\* safe_divide(row['Revenue_Fact'], total_revenue, 0) on two floats
store_segment_share(row, total_revenue) ==
    safe_divide(Scalar(row.Revenue_Fact), Scalar(total_revenue), RZero).val.num

\* one entry of the plan; the text of Based_on is written in English
SmartPlanRow(row, fc, share, factor) ==
    [Magazin |-> row.Magazin, Segment |-> row.Segment, Month |-> fc.Month,
     Revenue_Plan |-> Round2(RMul(RMul(fc.Forecast_Revenue, share), factor)),
     Units_Plan |-> Trunc(RMul(RMul(RInt(fc.Forecast_Units), share), factor)),
     Growth_Rate |-> fc.Growth_Rate,
     Based_on |-> "Historical data + forecast"]

SMART_PLAN_COLUMNS == <<"Magazin", "Segment", "Month", "Revenue_Plan", "Units_Plan",
                        "Based_on", "Growth_Rate">>

\* the entries of one pair, one per forecast row
PairPlan(row, fcs, total_revenue, factor) ==
    [j \in DOMAIN fcs |->
        SmartPlanRow(row, fcs[j], store_segment_share(row, total_revenue), factor)]

\* pd.DataFrame(smart_plan): without an entry the table has no column
SmartPlanOf(avg, fcs, total_revenue, factor) ==
    IF avg = <<>> THEN DataFrame(<<>>, <<>>)
    ELSE DataFrame(SMART_PLAN_COLUMNS,
                   Concat([i \in DOMAIN avg |-> PairPlan(avg[i], fcs, total_revenue, factor)]))

SmartPlanFrom(avg, next_period, factor) ==
    IF next_period = None \/ next_period[1].rows = <<>> THEN None
    ELSE Some(SmartPlanOf(avg, next_period[1].rows, TotalOf(avg), factor))

create_smart_plan(mergedArg, detailedArg, forecast_periods, factor) ==
    SmartPlanFrom(store_segment_avg(mergedArg.rows),
                  forecast_next_period(mergedArg, detailedArg, forecast_periods), factor)

-----------------------------------------------------------------------------
(* The smart plan: main() holds the tables of prepare_data.                *)

MaxSales == 2

\* Price, Qty, Sum of the sale of a pair
PairSale(pair) ==
    CASE pair = <<"A", "S">> -> <<1000, 1, 1000>>
      [] pair = <<"A", "T">> -> <<0, 2, 0>>
      [] pair = <<"B", "S">> -> <<500, 2, 1000>>

SmartFactRows ==
    {FactRow(PairKeys[k][1], Timestamp(2025, mth, 15), PairKeys[k][2],
             PairSale(PairKeys[k])[1], PairSale(PairKeys[k])[2], PairSale(PairKeys[k])[3]) :
        k \in DOMAIN PairKeys, mth \in {10, 11}}

\* a plan of one pair and a plan of three, with one or two months a pair
SmartPlans == {
    <<PlanRow("A", "S", "2025-10", 300, 3), PlanRow("A", "S", "2025-11", 300, 3)>>,
    <<PlanRow("A", "S", "2025-10", 300, 3), PlanRow("B", "S", "2025-11", 1000, 10),
      PlanRow("A", "T", "2025-10", 0, 0), PlanRow("A", "S", "2025-11", 300, 3)>> }

\* slider positions of the adjustment factor: 1.0, 1.1 and 0.9
ADJUSTMENT_FACTORS == {RInt(1), Rat(11, 10), Rat(9, 10)}

InitSmartPlan ==
    /\ op = "init"
    /\ \E sales \in SeqsUpTo(SmartFactRows, MaxSales), plan \in SmartPlans :
          \E r \in {prepare_data(Some(DataFrame(REQUIRED_FACT_COLUMNS, sales)),
                                 Some(DataFrame(REQUIRED_PLAN_COLUMNS, plan)))} :
              /\ df_fact = r.caller_fact
              /\ df_plan = Some(DataFrame(REQUIRED_PLAN_COLUMNS, plan))
              /\ df_merged = r.ret_merged
              /\ df_fact_detailed = r.ret_fact
              /\ date_errors = r.n_errors
              /\ monthly_sales = IF r.ret_fact = None THEN <<>>
                                 ELSE MonthlySales(r.ret_fact[1].rows)
    /\ periods \in 1..MaxPeriods
    /\ window = 0 /\ forecast = None /\ forecast_df = None
    /\ IdleDiv /\ IdleAbc /\ IdleLater

\* smart_plan_df = create_smart_plan(df_filtered, df_fact_detailed,
\*                                   forecast_periods, adjustment_factor);
\* forecast_df is the local table of create_smart_plan
CreateSmartPlan ==
    /\ op = "init"
    /\ df_merged # None
    /\ op' = "create_smart_plan"
    /\ forecast_df' = forecast_next_period(df_merged[1], df_fact_detailed[1], periods)
    /\ \E factor \in ADJUSTMENT_FACTORS :
          /\ adjustment_factor' = Some(factor)
          /\ smart_plan' = create_smart_plan(df_merged[1], df_fact_detailed[1], periods, factor)
    /\ UNCHANGED <<division, tables, forecasting, abc_analysis,
                   scenario, df_scenario, avg_growth_rate,
                   financial_metrics, recommendations, loading>>

NextSmartPlan == CreateSmartPlan

SpecSmartPlan == InitSmartPlan /\ [][NextSmartPlan]_vars

-----------------------------------------------------------------------------
(* What the claims about the smart plan read off a state.                  *)

Planned == op = "create_smart_plan" /\ smart_plan # None

\* the (outlet, segment) pairs of the reconciled history
HistoryPairs == {<<df_merged[1].rows[i].Magazin, df_merged[1].rows[i].Segment>> :
                    i \in DOMAIN df_merged[1].rows}

\* the month i months after the last month of the history
FutureMonth(i) == MonthAfter(monthly_sales[Len(monthly_sales)].Month, i)

\* the entries of the plan for a pair and a month
EntriesOf(pair, month) ==
    {k \in DOMAIN smart_plan[1].rows :
        /\ smart_plan[1].rows[k].Magazin = pair[1]
        /\ smart_plan[1].rows[k].Segment = pair[2]
        /\ smart_plan[1].rows[k].Month = month}

OnePerPairAndMonth ==
    /\ Len(smart_plan[1].rows) = Cardinality(HistoryPairs) * periods
    /\ \A pair \in HistoryPairs, i \in 1..periods :
          Cardinality(EntriesOf(pair, FutureMonth(i))) = 1

\* the actual revenue of the rows of a pair, as a sequence over all rows
RevenueOf(pair) ==
    [i \in DOMAIN df_merged[1].rows |->
        IF <<df_merged[1].rows[i].Magazin, df_merged[1].rows[i].Segment>> = pair
        THEN df_merged[1].rows[i].Revenue_Fact ELSE 0]

RowsOf(pair) ==
    {i \in DOMAIN df_merged[1].rows :
        <<df_merged[1].rows[i].Magazin, df_merged[1].rows[i].Segment>> = pair}

\* the mean historical actual revenue of a pair
MeanRevenue(pair) == Rat(ISum(RevenueOf(pair)), Cardinality(RowsOf(pair)))

RECURSIVE SumOfMeans(_)
SumOfMeans(pairs) ==
    IF pairs = {} THEN RZero
    ELSE RAdd(MeanRevenue(CHOOSE p \in pairs : TRUE),
              SumOfMeans(pairs \ {CHOOSE p \in pairs : TRUE}))

\* the share of a pair: 0 when the means sum to 0
StatedShare(pair) ==
    IF SumOfMeans(HistoryPairs) = RZero THEN RZero
    ELSE RDiv(MeanRevenue(pair), SumOfMeans(HistoryPairs))

\* the single-pair example for the forecast rows of revenue 1000
ExampleEntries ==
    \A j \in DOMAIN forecast_df[1].rows :
        forecast_df[1].rows[j].Forecast_Revenue = RInt(1000) =>
            \E k \in DOMAIN smart_plan[1].rows :
                /\ EntriesOf(CHOOSE p \in HistoryPairs : TRUE, forecast_df[1].rows[j].Month) = {k}
                /\ smart_plan[1].rows[k].Revenue_Plan = RInt(1000)

SinglePair == Cardinality(HistoryPairs) = 1 /\ adjustment_factor = Some(RInt(1))

(* C15: the plan has exactly one entry for every (outlet, segment) pair of *)
(* the reconciled history and every future month, so pairs x horizon       *)
(* entries without a duplicate key; with a single pair that has actual     *)
(* revenue, a forecast of 1000 for a month and the factor 1.0 the one      *)
(* entry of that month plans revenue 1000.                                 *)
C15_OneEntryPerKey ==
    Planned =>
        /\ OnePerPairAndMonth
        /\ (SinglePair /\ SumOfMeans(HistoryPairs) # RZero) => ExampleEntries

(* C15 as stated: the same, the example for any single pair.               *)
C15_OneEntryPerKeyAnyPair ==
    Planned =>
        /\ OnePerPairAndMonth
        /\ SinglePair => ExampleEntries

C15_Witness ==
    /\ Planned
    /\ SinglePair
    /\ periods = 2
    /\ \A k \in DOMAIN smart_plan[1].rows : smart_plan[1].rows[k].Revenue_Plan = RInt(1000)
    /\ forecast_df[1].rows[2].Forecast_Revenue = RInt(1000)

\* the revenue and the units forecast_next_period gives for future month j
GrowthForecast(j, what) ==
    RMul(RInt(monthly_sales[Len(monthly_sales)][what]),
         RPow(RAdd(RInt(1), RDiv(StatedGrowth(Revenues(monthly_sales)), RInt(100))), j))

IsGrowthForecast ==
    /\ Len(forecast_df[1].rows) = periods
    /\ \A j \in 1..periods :
          /\ forecast_df[1].rows[j].Month = FutureMonth(j)
          /\ forecast_df[1].rows[j].Forecast_Revenue = GrowthForecast(j, "Sum")
          /\ forecast_df[1].rows[j].Forecast_Units = Trunc(GrowthForecast(j, "Qty"))

\* forecast x share x adjustment factor for entry e and forecast row f
Allocated(amount, e) ==
    RMul(RMul(amount, StatedShare(<<e.Magazin, e.Segment>>)), adjustment_factor[1])

\* the forecast row of the month of entry e
ForecastFor(e) ==
    forecast_df[1].rows[CHOOSE j \in DOMAIN forecast_df[1].rows :
                            forecast_df[1].rows[j].Month = e.Month]

(* C16: every entry plans the revenue forecast of its month x the share of *)
(* its pair x the adjustment factor, rounded to two decimals, and the      *)
(* forecast units x share x factor with the fraction dropped; the share is *)
(* the pair's mean actual revenue over the sum of the pairs' means, 0 when *)
(* that sum is 0.                                                          *)
C16_RoundedAllocation ==
    Planned =>
        /\ IsGrowthForecast
        /\ \A k \in DOMAIN smart_plan[1].rows :
              /\ RoundedTo2(smart_plan[1].rows[k].Revenue_Plan,
                            Allocated(ForecastFor(smart_plan[1].rows[k]).Forecast_Revenue,
                                      smart_plan[1].rows[k]))
              /\ smart_plan[1].rows[k].Units_Plan =
                    Trunc(Allocated(RInt(ForecastFor(smart_plan[1].rows[k]).Forecast_Units),
                                    smart_plan[1].rows[k]))

(* C16 as stated: the planned revenue is the product itself.               *)
C16_ExactAllocation ==
    Planned =>
        /\ IsGrowthForecast
        /\ \A k \in DOMAIN smart_plan[1].rows :
              /\ smart_plan[1].rows[k].Revenue_Plan =
                    Allocated(ForecastFor(smart_plan[1].rows[k]).Forecast_Revenue,
                              smart_plan[1].rows[k])
              /\ smart_plan[1].rows[k].Units_Plan =
                    Trunc(Allocated(RInt(ForecastFor(smart_plan[1].rows[k]).Forecast_Units),
                                    smart_plan[1].rows[k]))

C16_Witness ==
    /\ Planned
    /\ \E k \in DOMAIN smart_plan[1].rows :
          /\ StatedShare(<<smart_plan[1].rows[k].Magazin, smart_plan[1].rows[k].Segment>>)
                = Rat(1, 3)
          /\ smart_plan[1].rows[k].Revenue_Plan = Rat(33333, 100)
          /\ smart_plan[1].rows[k].Units_Plan = 0
    /\ \E k \in DOMAIN smart_plan[1].rows : smart_plan[1].rows[k].Units_Plan = 1

-----------------------------------------------------------------------------
(* calculate_financial_metrics and generate_plan_recommendations. The      *)
(* Russian priorities and categories are written in English; the issue of  *)
(* a recommendation holds the value its text quotes.                       *)

\* a 0-dimensional numpy array, as np.where returns for scalars
NdArray(x) == [typ |-> "ndarray", val |-> x]

\* column.sum()
Total(rws, what) == ISum([i \in DOMAIN rws |-> rws[i][what]])

\* the number safe_divide(num, den, 0) returns for two scalars
Quotient(num, den) == safe_divide(num, den, RZero).val.num

\* the outlets that reach their plan, the ones exactly on it included
StoresAtOrAbovePlan(groups) ==
    Cardinality({i \in DOMAIN groups : groups[i].Revenue_Fact >= groups[i].Revenue_Plan})

\* len(df_merged.groupby('Magazin').agg(...).query('Revenue_Fact > Revenue_Plan'))
StoresAbovePlan(groups) ==
    Cardinality({i \in DOMAIN groups : groups[i].Revenue_Fact > groups[i].Revenue_Plan})

\* the dictionary returned; the sums of the plan's columns are numpy
\* integers, those of the actuals doubles
FinancialMetrics(plan_rev, fact_rev, plan_uni, fact_uni, check_plan, check_fact, stores, above) ==
    [total_revenue_plan |-> plan_rev,
     total_revenue_fact |-> fact_rev,
     total_units_plan |-> plan_uni,
     total_units_fact |-> fact_uni,
     revenue_variance |-> fact_rev - plan_rev,
     revenue_variance_pct |->
        RMul(Quotient(Scalar(RInt(fact_rev - plan_rev)), NpInt(RInt(plan_rev))), RInt(100)),
     units_variance |-> fact_uni - plan_uni,
     units_variance_pct |->
        RMul(Quotient(Scalar(RInt(fact_uni - plan_uni)), NpInt(RInt(plan_uni))), RInt(100)),
     avg_check_plan |-> check_plan,
     avg_check_fact |-> check_fact,
     avg_check_diff |-> RSub(check_fact, check_plan),
     avg_check_diff_pct |->
        RMul(Quotient(NdArray(RSub(check_fact, check_plan)), NdArray(check_plan)), RInt(100)),
     plan_achievement |->
        RMul(Quotient(Scalar(RInt(fact_rev)), NpInt(RInt(plan_rev))), RInt(100)),
     total_stores |-> stores,
     stores_above_plan |-> above,
     store_success_rate |->
        RMul(Quotient(Scalar(RInt(above)), Scalar(RInt(stores))), RInt(100))]

MetricsOf(plan_rev, fact_rev, plan_uni, fact_uni, stores, above) ==
    FinancialMetrics(plan_rev, fact_rev, plan_uni, fact_uni,
                     Quotient(NpInt(RInt(plan_rev)), NpInt(RInt(plan_uni))),
                     Quotient(Scalar(RInt(fact_rev)), Scalar(RInt(fact_uni))),
                     stores, above)

calculate_financial_metrics(mergedArg, detailedArg) ==
    MetricsOf(Total(mergedArg.rows, "Revenue_Plan"), Total(mergedArg.rows, "Revenue_Fact"),
              Total(mergedArg.rows, "Units_Plan"), Total(mergedArg.rows, "Units_Fact"),
              Cardinality(OutletsOf(mergedArg.rows)),
              StoresAbovePlan(GroupByMagazin(mergedArg.rows)))

\* one recommendation: impact repeats the priority in every rule
Recommendation(priority, category, issue, text) ==
    [priority |-> priority, category |-> category, issue |-> issue,
     recommendation |-> text, impact |-> priority]

RECOMMENDATION_COLUMNS == <<"priority", "category", "issue", "recommendation", "impact">>

\* the plan-achievement rule with 100 as its upper threshold
PlanRuleAbove100(metrics) ==
    (IF RLt(metrics.plan_achievement, RInt(90))
     THEN <<Recommendation("High", "Plan achievement", <<metrics.plan_achievement>>,
                           "Lower the targets by 10-15% or strengthen marketing support")>>
     ELSE <<>>)
    \o (IF RLt(RInt(100), metrics.plan_achievement)
        THEN <<Recommendation("Medium", "Plan achievement",
                              <<RSub(metrics.plan_achievement, RInt(100))>>,
                              "Raise the targets by 5-10%")>>
        ELSE <<>>)

\* 1. plan achievement: if ... < 90, elif ... > 110
PlanRule(metrics) ==
    IF RLt(metrics.plan_achievement, RInt(90))
    THEN <<Recommendation("High", "Plan achievement", <<metrics.plan_achievement>>,
                          "Lower the targets by 10-15% or strengthen marketing support")>>
    ELSE IF RLt(RInt(110), metrics.plan_achievement)
    THEN <<Recommendation("Medium", "Plan achievement",
                          <<RSub(metrics.plan_achievement, RInt(100))>>,
                          "Raise the targets by 5-10%")>>
    ELSE <<>>

\* the segments of the model in the order groupby sorts its keys
SegmentKeys == <<"S", "T", "U">>

SegmentSums(rws, present) ==
    Values([i \in DOMAIN present |->
       [Segment |-> present[i],
        Revenue_Plan |-> ISum([k \in DOMAIN rws |->
            IF rws[k].Segment = present[i] THEN rws[k].Revenue_Plan ELSE 0]),
        Revenue_Fact |-> ISum([k \in DOMAIN rws |->
            IF rws[k].Segment = present[i] THEN rws[k].Revenue_Fact ELSE 0])]])

\* df_merged.groupby('Segment').agg({...: 'sum'}).reset_index()
GroupBySegment(rws) ==
    SegmentSums(rws, SelectSeq(SegmentKeys, LAMBDA s : \E i \in DOMAIN rws : rws[i].Segment = s))

\* safe_divide(Revenue_Fact, Revenue_Plan) * 100 on the two columns
Achievement(groups) ==
    Values([i \in DOMAIN groups |->
        Times100(safe_divide(Series([k \in DOMAIN groups |-> RInt(groups[k].Revenue_Fact)]),
                             Series([k \in DOMAIN groups |-> RInt(groups[k].Revenue_Plan)]),
                             RZero).val[i])])

SegmentRecommendation(seg, achievement) ==
    Recommendation("High", "Segmentation", <<seg.Segment, achievement.num>>,
                   "Analyse the assortment of the segment, consider promotions")

\* the first row of segment_performance with Achievement < 85 alone
UnderperformingFirst(groups, achievement) ==
    SelectSeq([i \in DOMAIN groups |-> i],
              LAMBDA i : /\ RLt(achievement[i].num, RInt(85))
                         /\ \A j \in 1..(i - 1) : ~RLt(achievement[j].num, RInt(85)))

\* the rows of segment_performance with Achievement < 85, in their order
Underperforming(groups, achievement) ==
    SelectSeq([i \in DOMAIN groups |-> i], LAMBDA i : RLt(achievement[i].num, RInt(85)))

SegmentEntries(groups, achievement, under) ==
    [k \in DOMAIN under |-> SegmentRecommendation(groups[under[k]], achievement[under[k]])]

SegmentsOf(groups, achievement) ==
    SegmentEntries(groups, achievement, Underperforming(groups, achievement))

\* 2. one entry per underperforming segment
SegmentRule(groups) == SegmentsOf(groups, Achievement(groups))

\* abc_analysis[abc_analysis['ABC_Category'] == 'C']
category_c(abc) == SelectSeq(abc.rows, LAMBDA r : r.ABC_Category = "C")

\* the rule firing only for more than one outlet of category C
AbcRuleSeveral(abc) ==
    IF Len(category_c(abc)) > 1
    THEN <<Recommendation("Medium", "ABC analysis", <<Len(category_c(abc))>>,
                          "Consider optimising or closing the inefficient outlets")>>
    ELSE <<>>

\* 3. if len(category_c) > 0
AbcRule(abc) ==
    IF Len(category_c(abc)) > 0
    THEN <<Recommendation("Medium", "ABC analysis", <<Len(category_c(abc))>>,
                          "Consider optimising or closing the inefficient outlets")>>
    ELSE <<>>

\* 4. if financial_metrics['avg_check_diff_pct'] < -10
CheckRule(metrics) ==
    IF RLt(metrics.avg_check_diff_pct, RInt(-10))
    THEN <<Recommendation("High", "Average check", <<RAbs(metrics.avg_check_diff_pct)>>,
                          "Introduce up-selling and cross-selling, train the staff")>>
    ELSE <<>>

\* 5. if financial_metrics['store_success_rate'] < 50
SuccessRule(metrics) ==
    IF RLt(metrics.store_success_rate, RInt(50))
    THEN <<Recommendation("Critical", "Network efficiency", <<metrics.store_success_rate>>,
                          "Audit the inefficient outlets, review the motivation system")>>
    ELSE <<>>

\* pd.DataFrame(recommendations) if recommendations else None
RecommendationsOf(recs) ==
    IF recs # <<>> THEN Some(DataFrame(RECOMMENDATION_COLUMNS, recs)) ELSE None

generate_plan_recommendations(mergedArg, detailedArg, metrics, abc) ==
    RecommendationsOf(PlanRule(metrics) \o SegmentRule(GroupBySegment(mergedArg.rows))
                      \o AbcRule(abc) \o CheckRule(metrics) \o SuccessRule(metrics))

-----------------------------------------------------------------------------
(* Recommendations: main() holds the filtered reconciled table, which is   *)
(* not empty, its financial metrics and its ABC classification.            *)

\* outlet, segment, planned and actual revenue and units
RecRows == {
    MergedRow("A", "S", "2025-01", 1000, 10, 800, 10),
    MergedRow("A", "S", "2025-01", 1000, 10, 900, 10),
    MergedRow("A", "T", "2025-01", 1000, 10, 1200, 10),
    MergedRow("B", "S", "2025-01", 1000, 10, 1050, 10),
    MergedRow("B", "T", "2025-01", 1000, 10, 850, 10),
    MergedRow("B", "U", "2025-01", 0, 0, 0, 0),
    MergedRow("C", "U", "2025-01", 100, 1, 50, 1),
    MergedRow("C", "T", "2025-01", 500, 5, 0, 0) }

\* one row per key (outlet, segment, month)
UniqueKeys(r) ==
    \A i, j \in DOMAIN r :
        i # j => <<r[i].Magazin, r[i].Segment, r[i].Month>> # <<r[j].Magazin, r[j].Segment, r[j].Month>>

RecTables ==
    {Some(DataFrame(MERGED_COLUMNS, r)) :
        r \in {q \in SeqsUpTo(RecRows, MaxMergedRows) : q # <<>> /\ UniqueKeys(q)}}

InitRecommend ==
    /\ op = "init"
    /\ df_merged \in RecTables
    /\ df_fact_detailed = None /\ date_errors = 0
    /\ financial_metrics = Some(calculate_financial_metrics(df_merged[1], df_fact_detailed))
    /\ \E order \in sort_values(GroupByMagazin(df_merged[1].rows)) :
          abc_analysis = Some(perform_abc_analysis(df_merged[1], order))
    /\ recommendations = None
    /\ IdleDiv /\ IdleTables /\ IdleForecast
    /\ IdleScenario /\ IdleGrowth /\ IdleSmartPlan /\ IdleLoad

\* recommendations_df = generate_plan_recommendations(df_filtered, df_fact_detailed,
\*                                                    financial_metrics, abc_analysis)
GeneratePlanRecommendations ==
    /\ op = "init"
    /\ op' = "generate_plan_recommendations"
    /\ recommendations' = generate_plan_recommendations(df_merged[1], df_fact_detailed,
                                                        financial_metrics[1], abc_analysis[1])
    /\ UNCHANGED <<division, tables, forecasting, abc_analysis, forecast_df,
                   scenario, df_scenario, avg_growth_rate, adjustment_factor, smart_plan,
                   financial_metrics, loading>>

NextRecommend == GeneratePlanRecommendations

SpecRecommend == InitRecommend /\ [][NextRecommend]_vars

-----------------------------------------------------------------------------
(* What the claims about the recommendations read off a state.             *)

Recommended == op = "generate_plan_recommendations"

\* the entries of the output, none when there is no table
Entries == IF recommendations = None THEN <<>> ELSE recommendations[1].rows

\* priority and category of the entries, in their order
Shape(entries) == [i \in DOMAIN entries |-> <<entries[i].priority, entries[i].category>>]

PlanEntries == SelectSeq(Shape(Entries), LAMBDA e : e[2] = "Plan achievement")

(* C17: there is at most one plan-achievement recommendation: exactly one  *)
(* of high priority when the achievement is below 90, exactly one of       *)
(* medium priority when it is above 110, none from 90 to 110.              *)
C17_PlanAchievementRule ==
    Recommended =>
        /\ Len(PlanEntries) <= 1
        /\ RLt(financial_metrics[1].plan_achievement, RInt(90)) =>
              PlanEntries = <<<<"High", "Plan achievement">>>>
        /\ RLt(RInt(110), financial_metrics[1].plan_achievement) =>
              PlanEntries = <<<<"Medium", "Plan achievement">>>>
        /\ (RLe(RInt(90), financial_metrics[1].plan_achievement)
              /\ RLe(financial_metrics[1].plan_achievement, RInt(110))) =>
              PlanEntries = <<>>

C17_Witness ==
    /\ Recommended
    /\ financial_metrics[1].plan_achievement = RInt(80)
    /\ PlanEntries = <<<<"High", "Plan achievement">>>>
    /\ Len(Entries) > 1

\* actual and planned revenue of a segment
SegmentTotal(seg, what) ==
    ISum([i \in DOMAIN df_merged[1].rows |->
             IF df_merged[1].rows[i].Segment = seg THEN df_merged[1].rows[i][what] ELSE 0])

\* segment actual / segment planned x 100, 0 when nothing is planned
SegmentAchievement(seg) ==
    IF SegmentTotal(seg, "Revenue_Plan") = 0 THEN RZero
    ELSE Rat(100 * SegmentTotal(seg, "Revenue_Fact"), SegmentTotal(seg, "Revenue_Plan"))

\* the segments present, in key order, that lie below 85
StatedSegments ==
    SelectSeq(SegmentKeys,
              LAMBDA s : /\ \E i \in DOMAIN df_merged[1].rows : df_merged[1].rows[i].Segment = s
                         /\ RLt(SegmentAchievement(s), RInt(85)))

When(cond, priority, category) == IF cond THEN <<<<priority, category>>>> ELSE <<>>

\* the entries the five rules give, each on its own, in rule order
StatedShape ==
    When(RLt(financial_metrics[1].plan_achievement, RInt(90)), "High", "Plan achievement")
    \o When(RLt(RInt(110), financial_metrics[1].plan_achievement), "Medium", "Plan achievement")
    \o [k \in DOMAIN StatedSegments |-> <<"High", "Segmentation">>]
    \o When(\E i \in DOMAIN abc_analysis[1].rows : abc_analysis[1].rows[i].ABC_Category = "C",
            "Medium", "ABC analysis")
    \o When(RLt(financial_metrics[1].avg_check_diff_pct, RInt(-10)), "High", "Average check")
    \o When(RLt(financial_metrics[1].store_success_rate, RInt(50)), "Critical", "Network efficiency")

SegmentEntriesOf(entries) == SelectSeq(entries, LAMBDA e : e.category = "Segmentation")

(* C18: the output is the concatenation, in rule order, of the entries of  *)
(* the plan-achievement rule, one high entry per segment whose achievement *)
(* is below 85, one medium entry when a category-C outlet exists, one high *)
(* entry when the average-check variance percent is below -10 and one      *)
(* critical entry when the outlet success rate is below 50; there is no    *)
(* table exactly when no rule's condition holds.                           *)
C18_RulesConcatenated ==
    Recommended =>
        /\ Shape(Entries) = StatedShape
        /\ [k \in DOMAIN SegmentEntriesOf(Entries) |-> SegmentEntriesOf(Entries)[k].issue[1]]
              = StatedSegments
        /\ (recommendations = None) <=> (StatedShape = <<>>)

C18_Witness ==
    /\ Recommended
    /\ Shape(Entries) = <<<<"High", "Plan achievement">>, <<"High", "Segmentation">>,
                          <<"High", "Segmentation">>, <<"Medium", "ABC analysis">>,
                          <<"High", "Average check">>, <<"Critical", "Network efficiency">>>>

-----------------------------------------------------------------------------
(* What the claim about the sign of the forecasts reads off a state.       *)

NonNegative(a) == \A k \in DOMAIN a : ~RLt(a[k], RZero)

\* the straight line through the series, one month past its end
LinearTrendAfter(monthly) ==
    PolyFit(Revenues(monthly), 1, Len(monthly))

(* C19: every forecast point of every model has revenue of at least 0, and *)
(* in the forecast table revenue of at least 0 and units that are a whole  *)
(* number of at least 0, also for a series whose trend falls below zero.   *)
C19_NonNegativeForecasts ==
    /\ (forecast # None /\ forecast[1] # None) =>
          /\ NonNegative(forecast[1][1].revenue)
          /\ NonNegative(forecast[1][1].units)
    /\ forecast_df # None =>
          \A i \in DOMAIN forecast_df[1].rows :
              /\ ~RLt(forecast_df[1].rows[i].Forecast_Revenue, RZero)
              /\ forecast_df[1].rows[i].Forecast_Units \in Nat

C19_Witness ==
    /\ op = "forecast_with_multiple_models"
    /\ Len(monthly_sales) = 2
    /\ RLt(LinearTrendAfter(monthly_sales), RZero)
    /\ \E i \in DOMAIN forecast_df[1].rows :
          /\ forecast_df[1].rows[i].Model_Key = "linear"
          /\ forecast_df[1].rows[i].Forecast_Revenue = RZero
    /\ \E i \in DOMAIN forecast_df[1].rows : forecast_df[1].rows[i].Model_Key = "ensemble"

-----------------------------------------------------------------------------
(* validate_columns and the two loaders.  A cell of a numeric column is a  *)
(* number or a text, as read from the file; the data types "Факт" and      *)
(* "План" are written "Fact" and "Plan".                                   *)

Num(n) == <<"num", n>>
Text == <<"str", 0>>

\* pd.to_numeric(..., errors='coerce'), fillna(0) and clip(lower=0) on a cell
Coerce(c) == IF c[1] = "str" \/ c[2] < 0 THEN Num(0) ELSE c

\* [col for col in required_columns if col not in df.columns]
missing_columns(df, required_columns) ==
    SelectSeq(required_columns,
              LAMBDA col : \A k \in DOMAIN df.columns : df.columns[k] # col)

\* the numeric columns of a fact table, converted in place
FactNumeric(df) ==
    DataFrame(df.columns,
        Values([i \in DOMAIN df.rows |->
            [df.rows[i] EXCEPT !.Price = Coerce(@), !.Qty = Coerce(@), !.Sum = Coerce(@)]]))

\* the numeric columns of a plan table, converted in place
PlanNumeric(df) ==
    DataFrame(df.columns,
        Values([i \in DOMAIN df.rows |->
            [df.rows[i] EXCEPT !.Revenue_Plan = Coerce(@), !.Units_Plan = Coerce(@)]]))

\* the columns without one of them
Without(cols, col) == SelectSeq(cols, LAMBDA c : c # col)

\* the table without a column
DropColumn(df, col) ==
    DataFrame(Without(df.columns, col),
              [i \in DOMAIN df.rows |-> [f \in DOMAIN df.rows[i] \ {col} |-> df.rows[i][f]]])

\* df[name] = values
Assign(df, name, values) ==
    DataFrame(WithColumn(df.columns, name),
              [i \in DOMAIN df.rows |->
                  [f \in DOMAIN df.rows[i] \cup {name} |->
                      IF f = name THEN values[i] ELSE df.rows[i][f]]])

\* df['Expected_Sum'] = df['Price'] * df['Qty']
Expected_Sum(df) ==
    Assign(df, "Expected_Sum",
           [i \in DOMAIN df.rows |-> df.rows[i].Price[2] * df.rows[i].Qty[2]])

\* df['Sum_Diff'] = abs(df['Sum'] - df['Expected_Sum'])
Sum_Diff(df) ==
    Assign(df, "Sum_Diff",
           [i \in DOMAIN df.rows |-> Abs(df.rows[i].Sum[2] - df.rows[i].Expected_Sum)])

\* np.where(df['Expected_Sum'] != 0, df['Sum_Diff'] / df['Expected_Sum'], 0)
Sum_Diff_Pct(df) ==
    Assign(df, "Sum_Diff_Pct",
           [i \in DOMAIN df.rows |->
               IF df.rows[i].Expected_Sum # 0
               THEN Rat(df.rows[i].Sum_Diff, df.rows[i].Expected_Sum)
               ELSE RZero])

tolerance == Rat(1, 100)

\* (df['Sum_Diff_Pct'] > tolerance).sum()
CountInconsistent(df) ==
    Cardinality({i \in DOMAIN df.rows : RLt(tolerance, df.rows[i].Sum_Diff_Pct)})

\* the fact table with the three columns of the consistency check
WithHelpers(df) == Sum_Diff_Pct(Sum_Diff(Expected_Sum(df)))

\* df.drop(['Expected_Sum', 'Sum_Diff', 'Sum_Diff_Pct'], axis=1, inplace=True)
DropHelpers(df) ==
    DropColumn(DropColumn(DropColumn(df, "Expected_Sum"), "Sum_Diff"), "Sum_Diff_Pct")

\* the count the consistency warning shows; None when the check is not reached
ConsistencyWarning(df, required_columns, data_type) ==
    IF Empty(df) \/ missing_columns(df[1], required_columns) # <<>> \/ data_type # "Fact"
    THEN None
    ELSE Some(CountInconsistent(WithHelpers(FactNumeric(df[1]))))

\* validate_columns(df, required_columns, data_type): ok is the value
\* returned, after is the table as the call leaves it.  The columns of the
\* consistency check are added and dropped again.
validate_columns(df, required_columns, data_type) ==
    IF Empty(df) THEN [ok |-> FALSE, after |-> df]
    ELSE IF missing_columns(df[1], required_columns) # <<>> THEN [ok |-> FALSE, after |-> df]
    ELSE IF data_type = "Fact"
    THEN [ok |-> TRUE, after |-> Some(DropHelpers(WithHelpers(FactNumeric(df[1]))))]
    ELSE IF data_type = "Plan" THEN [ok |-> TRUE, after |-> Some(PlanNumeric(df[1]))]
    ELSE [ok |-> TRUE, after |-> df]

\* a loader that returns the fact table though the plan table failed
LoadedPlanPartial(fact, plan) ==
    [ret_fact |-> fact.after, ret_plan |-> IF plan.ok THEN plan.after ELSE None,
     fact_after |-> fact.after, plan_after |-> plan.after]

\* what a loader returns and leaves behind once the fact table is validated
LoadedPlan(fact, plan) ==
    IF ~plan.ok
    THEN [ret_fact |-> None, ret_plan |-> None, fact_after |-> fact.after, plan_after |-> plan.after]
    ELSE [ret_fact |-> fact.after, ret_plan |-> plan.after,
          fact_after |-> fact.after, plan_after |-> plan.after]

LoadedFact(fact, planArg) ==
    IF ~fact.ok
    THEN [ret_fact |-> None, ret_plan |-> None, fact_after |-> fact.after, plan_after |-> planArg]
    ELSE LoadedPlan(fact, validate_columns(planArg, REQUIRED_PLAN_COLUMNS, "Plan"))

NotLoaded(factArg, planArg) ==
    [ret_fact |-> None, ret_plan |-> None, fact_after |-> factArg, plan_after |-> planArg]

\* load_data_from_sheets: readable is False for a link that cannot be parsed
\* and for a download that raises
load_data_from_sheets(factArg, planArg, readable) ==
    IF ~readable THEN NotLoaded(factArg, planArg)
    ELSE LoadedFact(validate_columns(factArg, REQUIRED_FACT_COLUMNS, "Fact"), planArg)

FILE_EXTENSIONS == {"xlsx", "xls", "csv"}

\* load_data_from_excel: None stands for a file that was not uploaded
load_data_from_excel(factArg, planArg, fact_ext, plan_ext) ==
    IF factArg = None \/ fact_ext \notin FILE_EXTENSIONS THEN NotLoaded(factArg, planArg)
    ELSE IF ~validate_columns(factArg, REQUIRED_FACT_COLUMNS, "Fact").ok
    THEN NotLoaded(factArg, planArg)
    ELSE IF planArg = None \/ plan_ext \notin FILE_EXTENSIONS
    THEN NotLoaded(validate_columns(factArg, REQUIRED_FACT_COLUMNS, "Fact").after, planArg)
    ELSE LoadedFact(validate_columns(factArg, REQUIRED_FACT_COLUMNS, "Fact"), planArg)

-----------------------------------------------------------------------------
(* Loading: the tables read, and the tables main() passes to prepare_data. *)

MaxRawRows == 2

RawFactRows == {
    [Magazin |-> "A", Datasales |-> Timestamp(2025, 1, 15), Segment |-> "S",
     Price |-> Num(100), Qty |-> Num(2), Sum |-> Num(200)],
    [Magazin |-> "A", Datasales |-> Timestamp(2025, 1, 15), Segment |-> "S",
     Price |-> Text, Qty |-> Num(-2), Sum |-> Num(200)] }

RawPlanRows == {
    [Magazin |-> "A", Segment |-> "S", Month |-> "2025-01",
     Revenue_Plan |-> Num(300), Units_Plan |-> Num(3)],
    [Magazin |-> "A", Segment |-> "S", Month |-> "2025-01",
     Revenue_Plan |-> Num(-300), Units_Plan |-> Text] }

\* the tables a file or a sheet may hold: complete ones, among them the
\* table without a row, and ones that lack a required column; None is a
\* file that was not uploaded
RawTables(cols, rws, dropped) ==
    {None}
    \cup {Some(DataFrame(cols, r)) : r \in SeqsUpTo(rws, MaxRawRows)}
    \cup {Some(DropColumn(DataFrame(cols, r), dropped)) : r \in SeqsUpTo(rws, MaxRawRows)}

\* the tables prepare_data is given: absent, without a row, or validated
GivenFact ==
    {None, Some(DataFrame(REQUIRED_FACT_COLUMNS, <<>>)),
     Some(DataFrame(REQUIRED_FACT_COLUMNS, <<FactRow("A", Timestamp(2025, 1, 15), "S", 100, 2, 200)>>))}

GivenPlan ==
    {None, Some(DataFrame(REQUIRED_PLAN_COLUMNS, <<>>)),
     Some(DataFrame(REQUIRED_PLAN_COLUMNS, <<PlanRow("A", "S", "2025-01", 300, 3)>>))}

InitLoad ==
    /\ op = "init"
    /\ raw_fact \in RawTables(REQUIRED_FACT_COLUMNS, RawFactRows, "Sum")
    /\ raw_plan \in RawTables(REQUIRED_PLAN_COLUMNS, RawPlanRows, "Units_Plan")
    /\ df_fact \in GivenFact
    /\ df_plan \in GivenPlan
    /\ is_valid = None /\ loaded = None /\ inconsistent_rows = None
    /\ IdleDiv /\ IdleRecon /\ IdleAbc /\ IdleForecast
    /\ IdleScenario /\ IdleGrowth /\ IdleSmartPlan /\ IdleRecommendations

Call_validate(name, result, fact_after, plan_after, warned) ==
    /\ op = "init"
    /\ op' = name
    /\ is_valid' = Some(result)
    /\ inconsistent_rows' = warned
    /\ raw_fact' = fact_after
    /\ raw_plan' = plan_after
    /\ UNCHANGED <<division, tables, forecasting, abc_analysis, forecast_df,
                   scenario, df_scenario, avg_growth_rate, adjustment_factor, smart_plan,
                   financial_metrics, recommendations, loaded>>

\* validate_columns(df_fact, REQUIRED_FACT_COLUMNS, "Факт")
ValidateFactColumns ==
    \E r \in {validate_columns(raw_fact, REQUIRED_FACT_COLUMNS, "Fact")} :
        Call_validate("validate_columns_fact", r.ok, r.after, raw_plan,
                      ConsistencyWarning(raw_fact, REQUIRED_FACT_COLUMNS, "Fact"))

\* validate_columns(df_plan, REQUIRED_PLAN_COLUMNS, "План")
ValidatePlanColumns ==
    \E r \in {validate_columns(raw_plan, REQUIRED_PLAN_COLUMNS, "Plan")} :
        Call_validate("validate_columns_plan", r.ok, raw_fact, r.after,
                      ConsistencyWarning(raw_plan, REQUIRED_PLAN_COLUMNS, "Plan"))

\* the consistency warning a loader shows while it validates the fact table
SheetsWarning(factArg, readable) ==
    IF ~readable THEN None ELSE ConsistencyWarning(factArg, REQUIRED_FACT_COLUMNS, "Fact")

ExcelWarning(factArg, fact_ext) ==
    IF factArg = None \/ fact_ext \notin FILE_EXTENSIONS THEN None
    ELSE ConsistencyWarning(factArg, REQUIRED_FACT_COLUMNS, "Fact")

Call_load(name, r, warned) ==
    /\ op = "init"
    /\ op' = name
    /\ loaded' = Some(<<r.ret_fact, r.ret_plan>>)
    /\ inconsistent_rows' = warned
    /\ raw_fact' = r.fact_after
    /\ raw_plan' = r.plan_after
    /\ UNCHANGED <<division, tables, forecasting, abc_analysis, forecast_df,
                   scenario, df_scenario, avg_growth_rate, adjustment_factor, smart_plan,
                   financial_metrics, recommendations, is_valid>>

\* df_fact, df_plan = load_data_from_sheets(plan_url, fact_url): the sheets
\* always hold a table
LoadDataFromSheets ==
    /\ raw_fact # None /\ raw_plan # None
    /\ \E readable \in BOOLEAN :
          Call_load("load_data_from_sheets",
                    load_data_from_sheets(raw_fact, raw_plan, readable),
                    SheetsWarning(raw_fact, readable))

\* df_fact, df_plan = load_data_from_excel(fact_file, plan_file)
LoadDataFromExcel ==
    \E fact_ext, plan_ext \in {"xlsx", "txt"} :
        Call_load("load_data_from_excel",
                  load_data_from_excel(raw_fact, raw_plan, fact_ext, plan_ext),
                  ExcelWarning(raw_fact, fact_ext))

NextLoad ==
    \/ ValidateFactColumns
    \/ ValidatePlanColumns
    \/ LoadDataFromSheets
    \/ LoadDataFromExcel
    \/ PrepareData

SpecLoad == InitLoad /\ [][NextLoad]_vars

-----------------------------------------------------------------------------
(* What the claim about fatal input reads off a step.                      *)

\* the table is absent, has no row or lacks a required column
Defective(df, required_columns) ==
    \/ df = None
    \/ df[1].rows = <<>>
    \/ \E c \in DOMAIN required_columns :
          \A k \in DOMAIN df[1].columns : df[1].columns[k] # required_columns[c]

NoRowOrAbsent(df) == df = None \/ df[1].rows = <<>>

ValidationFails ==
    /\ (op' = "validate_columns_fact" /\ Defective(raw_fact, REQUIRED_FACT_COLUMNS)) =>
          is_valid' = Some(FALSE) /\ raw_fact' = raw_fact
    /\ (op' = "validate_columns_plan" /\ Defective(raw_plan, REQUIRED_PLAN_COLUMNS)) =>
          is_valid' = Some(FALSE) /\ raw_plan' = raw_plan

LoadingFails ==
    (/\ op' \in {"load_data_from_sheets", "load_data_from_excel"}
     /\ \/ Defective(raw_fact, REQUIRED_FACT_COLUMNS)
        \/ Defective(raw_plan, REQUIRED_PLAN_COLUMNS)) =>
        loaded' = Some(<<None, None>>)

PreparationFails ==
    (op' = "prepare_data" /\ (NoRowOrAbsent(df_fact) \/ NoRowOrAbsent(df_plan))) =>
        df_merged' = None /\ df_fact_detailed' = None

(* C20: a table that is absent, empty or lacks a required column fails     *)
(* validate_columns and is left as it was; a loader given such a fact or   *)
(* plan table returns neither table; prepare_data given an absent or empty *)
(* fact or plan table returns neither the reconciled nor the fact table.   *)
C20_FatalInput == [][ValidationFails /\ LoadingFails /\ PreparationFails]_vars

C20_Witness ==
    /\ op = "load_data_from_excel"
    /\ loaded = Some(<<None, None>>)
    /\ ~Defective(raw_fact, REQUIRED_FACT_COLUMNS)
    /\ raw_fact[1].rows[1].Price = Num(0)
    /\ raw_plan # None
    /\ raw_plan[1].rows # <<>>
    /\ Defective(raw_plan, REQUIRED_PLAN_COLUMNS)

-----------------------------------------------------------------------------
(* Validation of fact tables whose Sum agrees or disagrees with Price*Qty. *)

ConsistencyRows == {
    [Magazin |-> "A", Datasales |-> Timestamp(2025, 1, 15), Segment |-> "S",
     Price |-> Num(100), Qty |-> Num(2), Sum |-> Num(200)],
    [Magazin |-> "A", Datasales |-> Timestamp(2025, 1, 15), Segment |-> "S",
     Price |-> Num(100), Qty |-> Num(2), Sum |-> Num(201)],
    [Magazin |-> "A", Datasales |-> Timestamp(2025, 1, 15), Segment |-> "S",
     Price |-> Num(100), Qty |-> Num(2), Sum |-> Num(202)],
    [Magazin |-> "B", Datasales |-> Timestamp(2025, 1, 15), Segment |-> "S",
     Price |-> Num(100), Qty |-> Num(2), Sum |-> Num(250)],
    [Magazin |-> "B", Datasales |-> Timestamp(2025, 1, 15), Segment |-> "S",
     Price |-> Num(0), Qty |-> Num(2), Sum |-> Num(50)],
    [Magazin |-> "B", Datasales |-> Timestamp(2025, 1, 15), Segment |-> "S",
     Price |-> Text, Qty |-> Num(-2), Sum |-> Num(-7)] }

InitConsistency ==
    /\ op = "init"
    /\ raw_fact \in RawTables(REQUIRED_FACT_COLUMNS, ConsistencyRows, "Sum")
    /\ raw_plan \in RawTables(REQUIRED_PLAN_COLUMNS, RawPlanRows, "Units_Plan")
    /\ is_valid = None /\ loaded = None /\ inconsistent_rows = None
    /\ IdleDiv /\ IdleTables /\ IdleRecon /\ IdleAbc /\ IdleForecast
    /\ IdleScenario /\ IdleGrowth /\ IdleSmartPlan /\ IdleRecommendations

NextConsistency == ValidateFactColumns \/ ValidatePlanColumns

SpecConsistency == InitConsistency /\ [][NextConsistency]_vars

\* the value validate_columns works with: a text or a negative number is 0
AsNumber(c) == IF c[1] = "str" \/ c[2] < 0 THEN 0 ELSE c[2]

\* Sum differs from Price * Qty by more than 1% of Price * Qty
BeyondTolerance(r) ==
    100 * Abs(AsNumber(r.Sum) - AsNumber(r.Price) * AsNumber(r.Qty))
        > AsNumber(r.Price) * AsNumber(r.Qty)

\* the row keeps its values, the numeric ones as numbers
SameValues(before, after) ==
    /\ DOMAIN after = DOMAIN before
    /\ after.Magazin = before.Magazin
    /\ after.Datasales = before.Datasales
    /\ after.Segment = before.Segment
    /\ after.Price = Num(AsNumber(before.Price))
    /\ after.Qty = Num(AsNumber(before.Qty))
    /\ after.Sum = Num(AsNumber(before.Sum))

FactValidated == op' = "validate_columns_fact" /\ is_valid' = Some(TRUE)

CountsBeyondTolerance ==
    inconsistent_rows' =
        Some(Cardinality({i \in DOMAIN raw_fact[1].rows : BeyondTolerance(raw_fact[1].rows[i])}))

KeepsRows ==
    /\ raw_fact'[1].columns = raw_fact[1].columns
    /\ Len(raw_fact'[1].rows) = Len(raw_fact[1].rows)
    /\ \A i \in DOMAIN raw_fact[1].rows :
          SameValues(raw_fact[1].rows[i], raw_fact'[1].rows[i])

(* C21: validating a fact table counts every row whose Sum differs from    *)
(* Price * Qty by more than 1%, the rows whose Price * Qty is 0 and whose  *)
(* Sum is not 0 among them, and leaves every row, its values and the       *)
(* columns of the table as they were.                                      *)
C21_InconsistentRowsCounted ==
    [][FactValidated => (CountsBeyondTolerance /\ KeepsRows)]_vars

-----------------------------------------------------------------------------
(* What the claim about dropped fact rows reads off a state of SpecRecon.  *)

\* the rows of the fact table given that the returned fact table lacks
DroppedRows == Len(df_fact[1].rows) - Len(df_fact_detailed[1].rows)

(* C22: prepare_data keeps in the returned fact table exactly the rows     *)
(* whose date could be turned into a date, and the count it reports is the *)
(* number of rows it dropped, the rows with a missing date among them.     *)
C22_DroppedRowsCounted ==
    Reconciled =>
        /\ \A i \in DOMAIN df_fact_detailed[1].rows : Parseable(df_fact_detailed[1].rows[i])
        /\ Len(df_fact_detailed[1].rows) = Len(SelectSeq(df_fact[1].rows, Parseable))
        /\ date_errors = DroppedRows

-----------------------------------------------------------------------------
(* What the claim about unmodified tables reads off a step.                *)

EngineOperations ==
    {"prepare_data", "perform_abc_analysis", "calculate_growth_rate",
     "forecast_linear_regression", "forecast_polynomial_regression",
     "forecast_exponential_smoothing", "forecast_weighted_moving_average",
     "forecast_ensemble", "forecast_with_multiple_models", "apply_scenario",
     "create_smart_plan", "generate_plan_recommendations"}

\* the tables the caller holds before the call are the same after it
CallerTablesKept ==
    /\ df_fact' = df_fact
    /\ df_plan' = df_plan
    /\ df_merged # None => df_merged' = df_merged
    /\ df_fact_detailed # None => df_fact_detailed' = df_fact_detailed
    /\ op' = "apply_scenario" => forecast_df' = forecast_df

(* C23: no engine operation modifies a table passed to it: after the call  *)
(* the caller's fact, plan, reconciled and forecast tables have the        *)
(* columns and the values they had before it.                              *)
C23_TablesNotModified == [][op' \in EngineOperations => CallerTablesKept]_vars

-----------------------------------------------------------------------------
(* What the claim about the weighted moving average reads off a state.     *)

Units(monthly) == [i \in DOMAIN monthly |-> monthly[i].Qty]

RECURSIVE SumTo(_)
SumTo(w) == IF w = 0 THEN 0 ELSE w + SumTo(w - 1)

\* the weight of the k-th value of a window, oldest first
StatedWeight(k, w) == Rat(k, SumTo(w))

RECURSIVE Extended(_, _, _)

\* the weighted average of the w values before index i
AverageBefore(y, w, i) ==
    RSum([k \in 1..w |-> RMul(StatedWeight(k, w), Extended(y, w, i - w - 1 + k))])

\* the history followed by the forecasts, each one computed from the w
\* values before it
Extended(y, w, i) == IF i <= Len(y) THEN RInt(y[i]) ELSE AverageBefore(y, w, i)

\* the fitted value of the month with zero-based index i - 1
StatedFitted(y, w) ==
    [i \in DOMAIN y |->
        IF i - 1 < w - 1 THEN RInt(y[i])
        ELSE RSum([k \in 1..w |-> RMul(StatedWeight(k, w), RInt(y[i - w + k]))])]

Averaging == op = "forecast_weighted_moving_average" /\ forecast # NoForecast

StatedSteps(y, made) ==
    /\ Len(made) = periods
    /\ \A j \in 1..periods :
          made[j] = RMax(RZero, Extended(y, window, Len(y) + j))

(* C24: the weighted moving average weights the k-th value of a window by  *)
(* k / (1 + ... + window), the most recent value highest; its fitted value *)
(* echoes the revenue of a month with index below window - 1 and is the    *)
(* weighted average of the last window revenues otherwise; every forecast  *)
(* step is the weighted average of the last window values of the history   *)
(* extended by the steps forecast before it.                               *)
C24_WeightedMovingAverage ==
    Averaging =>
        /\ StatedSteps(Revenues(monthly_sales), forecast[1][1].revenue)
        /\ StatedSteps(Units(monthly_sales), forecast[1][1].units)
        /\ forecast[2][1] =
              calculate_forecast_accuracy(Column(monthly_sales, "Sum"),
                                          StatedFitted(Revenues(monthly_sales), window))

C24_Witness ==
    /\ Averaging
    /\ window = 2
    /\ periods = 2
    /\ Revenues(monthly_sales) = <<0, 2, 5>>
    /\ forecast[1][1].revenue = <<RInt(4), Rat(13, 3)>>
    /\ forecast[2][1].MAPE # RZero

-----------------------------------------------------------------------------
(* What the claim about exponential smoothing reads off a state.           *)

RECURSIVE StatedSmoothed(_, _)
\* S[0] = Y[0], S[t] = 0.3 * Y[t] + 0.7 * S[t - 1]; t counts from 1 here
StatedSmoothed(y, t) ==
    IF t = 1 THEN RInt(y[1])
    ELSE RAdd(RMul(Rat(3, 10), RInt(y[t])), RMul(Rat(7, 10), StatedSmoothed(y, t - 1)))

Smoothes == op = "forecast_exponential_smoothing" /\ forecast # NoForecast

\* max(0, last + i * (last - before))
StatedTrend(last, before, i) ==
    RMax(RZero, RAdd(last, RMul(RInt(i), RSub(last, before))))

(* C25: exponential smoothing starts the smoothed revenue at the first     *)
(* revenue and continues it by 0.3 * Y[t] + 0.7 * S[t - 1]; the revenue    *)
(* forecast of step i is max(0, S[last] + i * (S[last] - S[last - 1])) and *)
(* the unit forecast of step i is max(0, U[last] + i * (U[last] -          *)
(* U[last - 1])) from the raw units.                                       *)
C25_ExponentialSmoothing ==
    Smoothes =>
        /\ Len(forecast[1][1].revenue) = periods
        /\ Len(forecast[1][1].units) = periods
        /\ \A i \in 1..periods :
              /\ forecast[1][1].revenue[i] =
                    StatedTrend(StatedSmoothed(Revenues(monthly_sales), Len(monthly_sales)),
                                StatedSmoothed(Revenues(monthly_sales), Len(monthly_sales) - 1), i)
              /\ forecast[1][1].units[i] =
                    StatedTrend(RInt(monthly_sales[Len(monthly_sales)].Qty),
                                RInt(monthly_sales[Len(monthly_sales) - 1].Qty), i)

C25_Witness ==
    /\ Smoothes
    /\ periods = 2
    /\ Revenues(monthly_sales) = <<0, 2, 5>>
    /\ forecast[1][1].revenue = <<Rat(81, 25), Rat(114, 25)>>
    /\ Units(monthly_sales) = <<1, 2, 1>>
    /\ forecast[1][1].units = <<RZero, RZero>>

-----------------------------------------------------------------------------
(* What the claims about the order of the classified outlets read off a    *)
(* state of SpecAbc.                                                       *)

\* the place of an outlet in the key order of the grouping
KeyIndex(magazin) == CHOOSE k \in DOMAIN OutletKeys : OutletKeys[k] = magazin

\* row i stands before row j rightly: more revenue, or the same revenue and
\* the earlier key
RanksBefore(a, b) ==
    \/ a.Revenue_Fact > b.Revenue_Fact
    \/ a.Revenue_Fact = b.Revenue_Fact /\ KeyIndex(a.Magazin) < KeyIndex(b.Magazin)

(* C26: the classified table lists the outlets by summed actual revenue,   *)
(* highest first, and outlets with equal actual revenue in the order of    *)
(* their keys, so cumulative revenue, percent and category of tied outlets *)
(* follow from that order.                                                 *)
C26_TiesKeepKeyOrder ==
    Classified =>
        \A i, j \in DOMAIN abc_analysis[1].rows :
            i < j => RanksBefore(abc_analysis[1].rows[i], abc_analysis[1].rows[j])

\* the last row of the classified table: the outlet ranked lowest
LowestRanked == abc_analysis[1].rows[Len(abc_analysis[1].rows)]

(* C27: whenever the total actual revenue of the reconciled table is       *)
(* greater than 0, the outlet ranked lowest has cumulative percent 100 and *)
(* category C, so a single outlet with revenue is classified C and         *)
(* category C is not empty.                                                *)
C27_LowestRankedIsC ==
    (Classified /\ TotalRevenueFact > 0) =>
        /\ LowestRanked.Revenue_Cumsum_Pct = Fin(RInt(100))
        /\ LowestRanked.ABC_Category = "C"
        /\ \E i \in DOMAIN abc_analysis[1].rows : abc_analysis[1].rows[i].ABC_Category = "C"

\* a network of one outlet with revenue
C27_Witness ==
    /\ Classified
    /\ TotalRevenueFact > 0
    /\ Len(abc_analysis[1].rows) = 1
    /\ abc_analysis[1].rows[1].Revenue_Fact = 8000
    /\ abc_analysis[1].rows[1].ABC_Category = "C"

-----------------------------------------------------------------------------
(* What the claim about the empty outcome reads off a state of             *)
(* SpecRecommend, where metrics and classification come from the           *)
(* reconciled table the recommendations are made for.                      *)

EntriesIn(category) == SelectSeq(Shape(Entries), LAMBDA e : e[2] = category)

(* C28: with the financial metrics and the classification of the same      *)
(* reconciled table, the output is never empty: when the total actual      *)
(* revenue is 0 the plan achievement is 0 and the plan-achievement rule    *)
(* fires, and when it is greater than 0 an outlet of category C exists and *)
(* the ABC rule fires.                                                     *)
C28_SomeRuleFires ==
    Recommended =>
        /\ recommendations # None
        /\ Entries # <<>>
        /\ TotalRevenueFact = 0 =>
              /\ financial_metrics[1].plan_achievement = RZero
              /\ EntriesIn("Plan achievement") = <<<<"High", "Plan achievement">>>>
        /\ TotalRevenueFact > 0 =>
              /\ category_c(abc_analysis[1]) # <<>>
              /\ EntriesIn("ABC analysis") = <<<<"Medium", "ABC analysis">>>>

\* a network that sold nothing against a plan of 500
C28_Witness ==
    /\ Recommended
    /\ TotalRevenueFact = 0
    /\ financial_metrics[1].total_revenue_plan = 500
    /\ EntriesIn("Plan achievement") = <<<<"High", "Plan achievement">>>>
    /\ EntriesIn("ABC analysis") = <<>>

-----------------------------------------------------------------------------
(* What the claim about the shares reads off a state of SpecSmartPlan.     *)

\* the shares create_smart_plan computes, one per pair of the history
Shares ==
    [i \in DOMAIN store_segment_avg(df_merged[1].rows) |->
        store_segment_share(store_segment_avg(df_merged[1].rows)[i],
                            TotalOf(store_segment_avg(df_merged[1].rows)))]

\* the units the plan allocates for a month, over all pairs
AllocatedUnits(month) ==
    ISum([k \in DOMAIN smart_plan[1].rows |->
             IF smart_plan[1].rows[k].Month = month THEN smart_plan[1].rows[k].Units_Plan ELSE 0])

HistoricalRevenue == SumOfMeans(HistoryPairs)

WithinForecastUnits ==
    \A j \in DOMAIN forecast_df[1].rows :
        AllocatedUnits(forecast_df[1].rows[j].Month) <= forecast_df[1].rows[j].Forecast_Units

NothingAllocated ==
    \A k \in DOMAIN smart_plan[1].rows :
        /\ smart_plan[1].rows[k].Revenue_Plan = RZero
        /\ smart_plan[1].rows[k].Units_Plan = 0

(* C29: the shares of all pairs sum to 1 whenever the total historical     *)
(* revenue is greater than 0, so with the adjustment factor 1 the units    *)
(* allocated for a month over all pairs never exceed the forecast units of *)
(* that month; when the total historical revenue is 0 every share is 0 and *)
(* every entry is still produced, with revenue 0 and units 0.              *)
C29_SharesSumToOne ==
    Planned =>
        /\ Len(Shares) = Cardinality(HistoryPairs)
        /\ RLt(RZero, HistoricalRevenue) =>
              /\ RSum(Shares) = RInt(1)
              /\ adjustment_factor = Some(RInt(1)) => WithinForecastUnits
        /\ HistoricalRevenue = RZero =>
              /\ \A i \in DOMAIN Shares : Shares[i] = RZero
              /\ OnePerPairAndMonth
              /\ NothingAllocated

\* three pairs share the forecast units of a month and truncation loses
\* some of them
C29_Witness ==
    /\ Planned
    /\ adjustment_factor = Some(RInt(1))
    /\ Cardinality(HistoryPairs) = 3
    /\ RLt(RZero, HistoricalRevenue)
    /\ RSum(Shares) = RInt(1)
    /\ AllocatedUnits(forecast_df[1].rows[1].Month) > 0
    /\ AllocatedUnits(forecast_df[1].rows[1].Month) < forecast_df[1].rows[1].Forecast_Units

-----------------------------------------------------------------------------
(* What the claim about outlets exactly on plan reads off a state of       *)
(* SpecRecommend.                                                          *)

\* the sum of a column of the reconciled table over the rows of an outlet
OutletTotal(magazin, what) ==
    ISum([i \in DOMAIN df_merged[1].rows |->
             IF df_merged[1].rows[i].Magazin = magazin THEN df_merged[1].rows[i][what] ELSE 0])

Outlets == OutletsOf(df_merged[1].rows)

\* the outlets whose summed actual revenue is strictly above their plan
StrictlyAbove ==
    {m \in Outlets : OutletTotal(m, "Revenue_Fact") > OutletTotal(m, "Revenue_Plan")}

AllExactlyOnPlan ==
    \A m \in Outlets : OutletTotal(m, "Revenue_Fact") = OutletTotal(m, "Revenue_Plan")

====
